---- MODULE Spec2Model ----
(***************************************************************************)
(* A state-machine model of YTStreamSender (src/App.tsx and its services): *)
(* the chat poller, the connect flow, the send orchestrator and the        *)
(* saved-message store.                                                    *)
(*                                                                         *)
(* React semantics assumed (React 18 automatic batching): all state        *)
(* setters called by one handler or one async continuation are applied     *)
(* together; the polling effect (App.tsx:117-177) then runs its cleanup    *)
(* and its body when one of its dependencies changed.  A handler therefore *)
(* is one action, effect re-run included.                                  *)
(*                                                                         *)
(* Strings that the code inspects character by character (the stream URL)  *)
(* are sequences of one-character strings.  JavaScript null / undefined is *)
(* Null for a string, NoId for a video or chat id, NoDetails for           *)
(* liveDetails, and the empty sequence for a slot that holds at most one   *)
(* object (a timer reference, the undo slot).                              *)
(***************************************************************************)
EXTENDS Integers, Sequences, FiniteSets, TLC

VARIABLES
    config,               \* App.tsx:26   AppConfig
    localStorage,         \* browser key-value store, keys of STORAGE_KEYS
    accessToken,          \* App.tsx:33
    refreshToken,         \* App.tsx:34
    activeTab,            \* App.tsx:37
    messages,             \* App.tsx:40   saved messages, in display order
    filter,               \* App.tsx:41
    searchQuery,          \* App.tsx:42
    quickMessage,         \* App.tsx:45
    quickMessageStatus,   \* App.tsx:46
    chatMessages,         \* App.tsx:49   chat log
    chatNextPageToken,    \* App.tsx:50
    chatPollingInterval,  \* App.tsx:51
    pollingTimeoutRef,    \* App.tsx:53   the pending poll timer the ref names
    lastDeleted,          \* App.tsx:56   undo slot
    undoTimeoutRef,       \* App.tsx:57   the ref names a timer (is not null)
    undoTimers,           \* App.tsx:317  the pending expiry timers, each as the
                          \*              snapshot it was started for, oldest first
    liveDetails,          \* App.tsx:60
    connectionError,      \* App.tsx:61
    isLoadingChat,        \* App.tsx:62
    messageStates,        \* App.tsx:63   id -> MessageState
    pollTimers,           \* pending poll timers no longer named by the ref
    pollFetches,          \* list_messages requests in flight
    connectRequests,      \* resolve_live_chat requests in flight
    sendRequests,         \* send_message requests in flight
    authRequests,         \* authorizations and token requests in flight
    resetTimers,          \* pending status-reset timers (setTimeout of 429/449/454)
    now,                  \* the value Date.now() returns
    lastOp                \* history: the handler or completion the last step ran

Null == "null"
NoId == <<>>

----------------------------------------------------------------------------
(* Bounds of the model.                                                    *)

MaxInFlight == 2      \* list_messages requests + poll timers alive at once
MaxSends == 2         \* send_message requests in flight at once
MaxResetTimers == 2   \* pending status-reset timers
MaxAdded == 2         \* added messages in the list at once
MaxClock == 1         \* ticks of the millisecond clock


----------------------------------------------------------------------------
(* Characters and strings.                                                 *)

Lower == {"a","b","c","d","e","f","g","h","i","j","k","l","m",
          "n","o","p","q","r","s","t","u","v","w","x","y","z"}
Upper == {"A","B","C","D","E","F","G","H","I","J","K","L","M",
          "N","O","P","Q","R","S","T","U","V","W","X","Y","Z"}
Digit == {"0","1","2","3","4","5","6","7","8","9"}

\* [a-zA-Z0-9_-]
IdChars == Lower \cup Upper \cup Digit \cup {"_", "-"}

\* the characters [^#&?] excludes
StopChars == {"#", "&", "?"}

IdLength == 11

YoutuBe    == <<"y","o","u","t","u",".","b","e","/">>
YoutubeCom == <<"y","o","u","t","u","b","e",".","c","o","m","/">>
EmbedMark  == <<"e","m","b","e","d","/">>
VMark      == <<"v","/">>
WatchVMark == <<"w","a","t","c","h","?","v","=">>
WatchMark  == <<"w","a","t","c","h","?">>
AmpVMark   == <<"&","v","=">>
LiveMark   == <<"l","i","v","e","/">>

SetMax(S) == CHOOSE x \in S : \A y \in S : y <= x
SetMin(S) == CHOOSE x \in S : \A y \in S : x <= y

\* p occurs in s at position i
StartsAt(s, i, p) ==
    /\ i >= 1
    /\ i + Len(p) - 1 <= Len(s)
    /\ \A k \in 1..Len(p) : s[i + k - 1] = p[k]

\* ([^#&?]+) matched greedily at position i; <<>> when it cannot match
CaptureFrom(s, i) ==
    IF i > Len(s) \/ s[i] \in StopChars
    THEN <<>>
    ELSE SubSeq(s, i, SetMax({j \in i..Len(s) : \A k \in i..j : s[k] \notin StopChars}))

\* the alternatives after youtube\.com\/ , tried in the order of the pattern
InnerCapture(s, b) ==
    IF StartsAt(s, b, EmbedMark) THEN CaptureFrom(s, b + Len(EmbedMark))
    ELSE IF StartsAt(s, b, VMark) THEN CaptureFrom(s, b + Len(VMark))
    ELSE IF StartsAt(s, b, WatchVMark) /\ CaptureFrom(s, b + Len(WatchVMark)) # <<>>
         THEN CaptureFrom(s, b + Len(WatchVMark))
    ELSE IF StartsAt(s, b, WatchMark)
         THEN LET P == {p \in (b + Len(WatchMark) + 1)..Len(s) :
                          StartsAt(s, p, AmpVMark) /\ CaptureFrom(s, p + Len(AmpVMark)) # <<>>}
              IN  IF P = {} THEN <<>> ELSE CaptureFrom(s, SetMax(P) + Len(AmpVMark))
    ELSE IF StartsAt(s, b, LiveMark) THEN CaptureFrom(s, b + Len(LiveMark))
    ELSE <<>>

\* the pattern of line 5 anchored at position st: its capture group, or <<>>
MatchAt(s, st) ==
    IF StartsAt(s, st, YoutuBe) THEN CaptureFrom(s, st + Len(YoutuBe))
    ELSE IF StartsAt(s, st, YoutubeCom) THEN InnerCapture(s, st + Len(YoutubeCom))
    ELSE <<>>

\* url.match(regExp)[1]: the capture of the leftmost match, or <<>>
RegExpCapture(s) ==
    LET S == {st \in 1..Len(s) : MatchAt(s, st) # <<>>}
    IN  IF S = {} THEN <<>> ELSE MatchAt(s, SetMin(S))

\* url.match(/([a-zA-Z0-9_-]{11})/): the leftmost run of 11 id characters
LooseMatch(s) ==
    LET S == {i \in 1..(Len(s) - IdLength + 1) :
                \A k \in i..(i + IdLength - 1) : s[k] \in IdChars}
    IN  IF S = {} THEN <<>> ELSE SubSeq(s, SetMin(S), SetMin(S) + IdLength - 1)

\* extractVideoId without the loose fallback of lines 20-23
extractVideoId_NoLooseMatch(url) ==
    IF url = <<>> THEN NoId
    ELSE IF Len(RegExpCapture(url)) = IdLength THEN RegExpCapture(url)
    ELSE IF Len(url) = IdLength /\ \A k \in 1..Len(url) : url[k] \in IdChars THEN url
    ELSE NoId

\* extractVideoId without the character test of line 14
extractVideoId_NoCharTest(url) ==
    IF url = <<>> THEN NoId
    ELSE IF Len(RegExpCapture(url)) = IdLength THEN RegExpCapture(url)
    ELSE IF Len(url) = IdLength THEN url
    ELSE IF LooseMatch(url) # <<>> THEN LooseMatch(url)
    ELSE NoId

\* the video id of a pasted URL or raw id, NoId when there is none
extractVideoId(url) ==
    IF url = <<>> THEN NoId
    ELSE IF Len(RegExpCapture(url)) = IdLength THEN RegExpCapture(url)
    ELSE IF Len(url) = IdLength /\ \A k \in 1..Len(url) : url[k] \in IdChars THEN url
    ELSE IF LooseMatch(url) # <<>> THEN LooseMatch(url)
    ELSE NoId

\* stream URLs the operator pastes
VideoA == <<"a","b","c","1","2","3","4","5","6","7","8">>
VideoB == <<"d","Q","w","4","w","9","W","g","X","c","Q">>
UrlShortA == YoutuBe \o VideoA
UrlLiveB  == YoutubeCom \o LiveMark \o VideoB
UrlBad    == <<"n","o","t"," ","a"," ","u","r","l">>

----------------------------------------------------------------------------
(* Program constants and data.                                             *)

MaxChatLog == 200            \* slice(-200)
PollFloor == 1000            \* Math.max(..., 1000)
PollDefault == 3000          \* useState(3000), || 3000

IDLE == "IDLE"
SENDING == "SENDING"
SUCCESS == "SUCCESS"
ERROR == "ERROR"

\* trim() of a message text is empty
Blank(text) == text \in {"", " "}

\* constants.ts DEFAULT_MESSAGES; an absent isPinned / isMain reads as false
DEFAULT_MESSAGES ==
    << [id |-> 1, text |-> "hello all", isPinned |-> FALSE, isMain |-> FALSE],
       [id |-> 2, text |-> "how are you", isPinned |-> FALSE, isMain |-> FALSE],
       [id |-> 3, text |-> "great stream", isPinned |-> FALSE, isMain |-> FALSE],
       [id |-> 4, text |-> "", isPinned |-> FALSE, isMain |-> FALSE],
       [id |-> 5, text |-> "", isPinned |-> FALSE, isMain |-> FALSE] >>

CONFIG_KEY == "yt_sender_config"
MESSAGES_KEY == "yt_sender_messages"
ACCESS_TOKEN_KEY == "yt_sender_access_token"
REFRESH_TOKEN_KEY == "undefined"   \* STORAGE_KEYS has no REFRESH_TOKEN entry

setItem(store, key, value) ==
    [k \in DOMAIN store \cup {key} |-> IF k = key THEN value ELSE store[k]]

removeItem(store, key) ==
    [k \in DOMAIN store \ {key} |-> store[k]]

\* liveDetails === null
NoDetails == [liveChatId |-> NoId, title |-> NoId, videoId |-> NoId]

\* liveDetails?.liveChatId
LiveChatIdOf(ld) == ld.liveChatId

\* what the provider answers for a video with an active chat
ChatOf(videoId) == <<"chat:">> \o videoId
TitleOf(videoId) == <<"title:">> \o videoId

----------------------------------------------------------------------------
(* Variable groups.                                                        *)

storeVars == <<messages, filter, searchQuery, lastDeleted, undoTimeoutRef, undoTimers, now>>
sendVars == <<quickMessage, quickMessageStatus, messageStates, sendRequests, resetTimers>>
connVars == <<liveDetails, connectionError, isLoadingChat, connectRequests>>
pollVars == <<activeTab, chatMessages, chatNextPageToken, chatPollingInterval,
              pollingTimeoutRef, pollTimers, pollFetches>>
authVars == <<accessToken, refreshToken, authRequests>>

\* the history value left by every handler the history does not single out
Other == <<"other", 0>>

vars == <<config, localStorage, authVars, storeVars, sendVars, connVars, pollVars, lastOp>>

Init ==
    /\ config = [clientId |-> "", clientSecret |-> "", streamUrl |-> <<>>]
    /\ localStorage = <<>>
    /\ accessToken = ""
    /\ refreshToken = ""
    /\ activeTab = "saved"
    /\ messages = DEFAULT_MESSAGES
    /\ filter = "all"
    /\ searchQuery = ""
    /\ quickMessage = ""
    /\ quickMessageStatus = IDLE
    /\ chatMessages = <<>>
    /\ chatNextPageToken = Null
    /\ chatPollingInterval = PollDefault
    /\ pollingTimeoutRef = <<>>
    /\ lastDeleted = <<>>
    /\ undoTimeoutRef = FALSE
    /\ undoTimers = <<>>
    /\ liveDetails = NoDetails
    /\ connectionError = Null
    /\ isLoadingChat = FALSE
    /\ messageStates = <<>>
    /\ pollTimers = <<>>
    /\ pollFetches = <<>>
    /\ connectRequests = <<>>
    /\ sendRequests = <<>>
    /\ authRequests = <<>>
    /\ resetTimers = <<>>
    /\ now = Len(DEFAULT_MESSAGES) + 1
    /\ lastOp = Other

----------------------------------------------------------------------------
(* The chat poller (App.tsx:117-177).                                      *)

RemoveAt(seq, i) == SubSeq(seq, 1, i - 1) \o SubSeq(seq, i + 1, Len(seq))

\* the values a pollChat closure captured at the render that created it
Closure(tab, ld, tok, npt, ivl) ==
    [activeTab |-> tab, liveDetails |-> ld, accessToken |-> tok,
     chatNextPageToken |-> npt, chatPollingInterval |-> ivl]

\* lines 119-124: the requests pollChat issues, as a sequence of 0 or 1
\* (a request is recorded as the closure that issued it)
pollChat(c) ==
    IF c.accessToken = "" \/ LiveChatIdOf(c.liveDetails) = NoId \/ c.activeTab # "chat"
    THEN <<>>
    ELSE <<c>>

\* a finally block that never schedules
SchedulesNext_Never(c) == FALSE

\* lines 154-159: does the finally block schedule the next poll
SchedulesNext(c) == c.activeTab = "chat" /\ LiveChatIdOf(c.liveDetails) # NoId

\* loops alive: requests in flight and pending timers
PollAlive(ref, strays, fetches) ==
    Len(fetches) + Len(strays) + Len(ref)

\* Commit of a render whose new dependency values are tab, ld, tok, npt, ivl.
\* ref, strays and fetches are the timers and requests as the handler left
\* them.  When a dependency changed the cleanup of lines 172-176 clears the
\* timer the ref names, and the effect body of lines 162-170 runs.
PollEffect(changed, tab, ld, tok, npt, ivl, ref, strays, fetches) ==
    LET c == Closure(tab, ld, tok, npt, ivl)
    IN  /\ pollTimers' = strays
        /\ IF ~changed
           THEN /\ pollingTimeoutRef' = ref
                /\ pollFetches' = fetches
           ELSE IF tab = "chat" /\ LiveChatIdOf(ld) # NoId
           THEN IF npt = Null
                THEN /\ pollingTimeoutRef' = <<>>
                     /\ pollFetches' = fetches \o pollChat(c)
                ELSE /\ pollingTimeoutRef' = <<c>>
                     /\ pollFetches' = fetches
           ELSE /\ pollingTimeoutRef' = <<>>
                /\ pollFetches' = fetches
        /\ PollAlive(pollingTimeoutRef', pollTimers', pollFetches') <= MaxInFlight

\* lines 525 / 532: the tab buttons
setActiveTab(tab) ==
    /\ activeTab' = tab
    /\ PollEffect(tab # activeTab, tab, liveDetails, accessToken, chatNextPageToken,
                  chatPollingInterval, pollingTimeoutRef, pollTimers, pollFetches)
    /\ lastOp' = Other
    /\ UNCHANGED <<config, localStorage, authVars, storeVars, sendVars, connVars,
                   chatMessages, chatNextPageToken, chatPollingInterval>>

\* updateAccessToken without the removeItem of lines 70-72
updateAccessToken_NoRemove(token) ==
    /\ accessToken' = token
    /\ localStorage' = IF token # "" THEN setItem(localStorage, ACCESS_TOKEN_KEY, token)
                       ELSE localStorage
    /\ PollEffect(token # accessToken, activeTab, liveDetails, token, chatNextPageToken,
                  chatPollingInterval, pollingTimeoutRef, pollTimers, pollFetches)
    /\ lastOp' = <<"updateAccessToken", IF token = "" THEN 0 ELSE 1,
                   IF accessToken = "" THEN 0 ELSE 1>>
    /\ UNCHANGED <<config, refreshToken, authRequests, storeVars, sendVars, connVars,
                   activeTab, chatMessages, chatNextPageToken, chatPollingInterval>>

\* lines 66-73: manual entry or log out (SettingsPanel.tsx:144, 191); the
\* history records whether the new and the old token are non-empty
updateAccessToken(token) ==
    /\ accessToken' = token
    /\ localStorage' = IF token # "" THEN setItem(localStorage, ACCESS_TOKEN_KEY, token)
                       ELSE removeItem(localStorage, ACCESS_TOKEN_KEY)
    /\ PollEffect(token # accessToken, activeTab, liveDetails, token, chatNextPageToken,
                  chatPollingInterval, pollingTimeoutRef, pollTimers, pollFetches)
    /\ lastOp' = <<"updateAccessToken", IF token = "" THEN 0 ELSE 1,
                   IF accessToken = "" THEN 0 ELSE 1>>
    /\ UNCHANGED <<config, refreshToken, authRequests, storeVars, sendVars, connVars,
                   activeTab, chatMessages, chatNextPageToken, chatPollingInterval>>

\* lines 75-82: manual entry of a refresh token (SettingsPanel.tsx:202)
updateRefreshToken(token) ==
    /\ refreshToken' = token
    /\ localStorage' = IF token # "" THEN setItem(localStorage, REFRESH_TOKEN_KEY, token)
                       ELSE removeItem(localStorage, REFRESH_TOKEN_KEY)
    /\ lastOp' = <<"updateRefreshToken", 0>>
    /\ UNCHANGED <<config, accessToken, authRequests, storeVars, sendVars, connVars, pollVars>>

\* handleRefreshAuth without the guard of lines 202-205
handleRefreshAuth_NoGuard ==
    /\ lastOp' = <<"handleRefreshAuth", 0>>
    /\ authRequests' = Append(authRequests, "refresh")
    /\ Len(authRequests') <= MaxInFlight
    /\ UNCHANGED <<config, localStorage, accessToken, refreshToken, storeVars, sendVars,
                   connVars, pollVars>>

\* lines 201-208, up to the await
handleRefreshAuth ==
    /\ lastOp' = <<"handleRefreshAuth", 0>>
    /\ IF refreshToken = "" \/ config.clientId = "" \/ config.clientSecret = ""
       THEN /\ connectionError' = "refresh needs client id, secret and refresh token"
            /\ UNCHANGED authRequests
       ELSE /\ authRequests' = Append(authRequests, "refresh")
            /\ Len(authRequests') <= MaxInFlight
            /\ UNCHANGED connectionError
    /\ UNCHANGED <<config, localStorage, accessToken, refreshToken, storeVars, sendVars,
                   liveDetails, isLoadingChat, connectRequests, pollVars>>

\* handleAuthorize without the test of window.google of lines 223-226
handleAuthorize_NoLoadedTest(loaded) ==
    /\ lastOp' = <<"handleAuthorize", IF loaded THEN 1 ELSE 0>>
    /\ IF config.clientId = ""
       THEN /\ connectionError' = "client id required"
            /\ UNCHANGED authRequests
       ELSE /\ authRequests' = Append(authRequests,
                                      IF config.clientSecret # "" THEN "code" ELSE "token")
            /\ Len(authRequests') <= MaxInFlight
            /\ UNCHANGED connectionError
    /\ UNCHANGED <<config, localStorage, accessToken, refreshToken, storeVars, sendVars,
                   liveDetails, isLoadingChat, connectRequests, pollVars>>

\* lines 217-276, up to the callback; loaded is window.google as line 223
\* reads it (the identity script loads on its own).  The code flow is used
\* when a client secret is set, else the token flow; the history records
\* loaded
handleAuthorize(loaded) ==
    /\ lastOp' = <<"handleAuthorize", IF loaded THEN 1 ELSE 0>>
    /\ IF config.clientId = ""
       THEN /\ connectionError' = "client id required"
            /\ UNCHANGED authRequests
       ELSE IF ~loaded
       THEN /\ connectionError' = "Google Identity Services not loaded yet"
            /\ UNCHANGED authRequests
       ELSE /\ authRequests' = Append(authRequests,
                                      IF config.clientSecret # "" THEN "code" ELSE "token")
            /\ Len(authRequests') <= MaxInFlight
            /\ UNCHANGED connectionError
    /\ UNCHANGED <<config, localStorage, accessToken, refreshToken, storeVars, sendVars,
                   liveDetails, isLoadingChat, connectRequests, pollVars>>

\* the message of the error thrown by refreshGoogleToken (types.ts:160-163)
\* and exchangeCodeForTokens (types.ts:183-186): the provider's
\* error_description, or the default text when there is none
ErrorMessage(description, default) == IF description # "" THEN description ELSE default

\* what a failed request of the given kind sets as the connection error:
\* line 212 for a refresh; lines 246-247 for a failed code exchange and line
\* 250 for a popup that returned no code; line 266 for the token flow
AuthError(kind, resp) ==
    IF kind = "refresh"
    THEN "token refresh error: " \o ErrorMessage(resp.error_description,
                                                 "could not refresh the token")
    ELSE IF kind = "code"
    THEN IF resp.code
         THEN "code exchange error: " \o ErrorMessage(resp.error_description,
                                                      "could not exchange the code")
         ELSE "authorization cancelled or failed"
    ELSE "could not get an access token"

\* AuthReturns storing a returned refresh token whatever the flow
AuthReturns_AnyFlowStoresRefresh(i, resp) ==
    LET kind == authRequests[i]
        token == IF resp.ok THEN resp.access_token ELSE accessToken
        gotRefresh == resp.ok /\ resp.refresh_token # ""
        refresh == IF gotRefresh THEN resp.refresh_token ELSE refreshToken
        withAccess == IF ~resp.ok THEN localStorage
                      ELSE IF token # "" THEN setItem(localStorage, ACCESS_TOKEN_KEY, token)
                      ELSE removeItem(localStorage, ACCESS_TOKEN_KEY)
    IN  /\ i \in 1..Len(authRequests)
        /\ authRequests' = RemoveAt(authRequests, i)
        /\ accessToken' = token
        /\ refreshToken' = refresh
        /\ localStorage' = IF gotRefresh
                           THEN setItem(withAccess, REFRESH_TOKEN_KEY, refresh)
                           ELSE withAccess
        /\ connectionError' = IF resp.ok THEN Null ELSE AuthError(kind, resp)
        /\ PollEffect(token # accessToken, activeTab, liveDetails, token, chatNextPageToken,
                      chatPollingInterval, pollingTimeoutRef, pollTimers, pollFetches)
        /\ lastOp' = <<"AuthReturns", IF resp.ok THEN 1 ELSE 0, kind, resp>>
        /\ UNCHANGED <<config, storeVars, sendVars, liveDetails, isLoadingChat,
                       connectRequests, activeTab, chatMessages, chatNextPageToken,
                       chatPollingInterval>>

\* the authorization or token request i completes (lines 209-213, 237-252,
\* 259-268).  resp.ok tells success from failure or cancellation; a success
\* carries access_token and refresh_token ("" when the provider sends
\* none); a failure carries error_description ("" when there is none) and,
\* for the code flow, code: whether the popup returned an authorization
\* code, so that it is the exchange that failed.  The popup and the code
\* exchange of the code flow are one request: the application acts only when
\* the popup returns no code or the exchange returns.  The history records
\* the outcome, the kind of the request and the response.
AuthReturns(i, resp) ==
    LET kind == authRequests[i]
        token == IF resp.ok THEN resp.access_token ELSE accessToken
        gotRefresh == resp.ok /\ kind = "code" /\ resp.refresh_token # ""
        refresh == IF gotRefresh THEN resp.refresh_token ELSE refreshToken
        withAccess == IF ~resp.ok THEN localStorage
                      ELSE IF token # "" THEN setItem(localStorage, ACCESS_TOKEN_KEY, token)
                      ELSE removeItem(localStorage, ACCESS_TOKEN_KEY)
    IN  /\ i \in 1..Len(authRequests)
        /\ authRequests' = RemoveAt(authRequests, i)
        /\ accessToken' = token
        /\ refreshToken' = refresh
        /\ localStorage' = IF gotRefresh
                           THEN setItem(withAccess, REFRESH_TOKEN_KEY, refresh)
                           ELSE withAccess
        /\ connectionError' = IF resp.ok THEN Null ELSE AuthError(kind, resp)
        /\ PollEffect(token # accessToken, activeTab, liveDetails, token, chatNextPageToken,
                      chatPollingInterval, pollingTimeoutRef, pollTimers, pollFetches)
        /\ lastOp' = <<"AuthReturns", IF resp.ok THEN 1 ELSE 0, kind, resp>>
        /\ UNCHANGED <<config, storeVars, sendVars, liveDetails, isLoadingChat,
                       connectRequests, activeTab, chatMessages, chatNextPageToken,
                       chatPollingInterval>>

\* handleSaveConfig without the reset of lines 193-197
handleSaveConfig_NoReset(newConfig) ==
    /\ config' = newConfig
    /\ localStorage' = setItem(localStorage, CONFIG_KEY, newConfig)
    /\ PollEffect(FALSE, activeTab, liveDetails, accessToken, chatNextPageToken,
                  chatPollingInterval, pollingTimeoutRef, pollTimers, pollFetches)
    /\ lastOp' = <<"handleSaveConfig", IF newConfig.streamUrl # config.streamUrl THEN 1 ELSE 0>>
    /\ UNCHANGED <<authVars, storeVars, sendVars, connVars, activeTab, chatMessages,
                   chatNextPageToken, chatPollingInterval>>

\* lines 188-198; the history records whether the stream URL changed
handleSaveConfig(newConfig) ==
    LET urlChanged == newConfig.streamUrl # config.streamUrl
        ld == IF urlChanged THEN NoDetails ELSE liveDetails
        npt == IF urlChanged THEN Null ELSE chatNextPageToken
    IN  /\ config' = newConfig
        /\ localStorage' = setItem(localStorage, CONFIG_KEY, newConfig)
        /\ liveDetails' = ld
        /\ chatMessages' = IF urlChanged THEN <<>> ELSE chatMessages
        /\ chatNextPageToken' = npt
        /\ PollEffect(ld # liveDetails \/ npt # chatNextPageToken, activeTab, ld,
                      accessToken, npt, chatPollingInterval,
                      pollingTimeoutRef, pollTimers, pollFetches)
        /\ lastOp' = <<"handleSaveConfig", IF urlChanged THEN 1 ELSE 0>>
        /\ UNCHANGED <<authVars, storeVars, sendVars, connectionError, isLoadingChat,
                       connectRequests, activeTab, chatPollingInterval>>

\* a pending poll timer fires: the ref's (which = 0) or a stray one
PollTimerFires(which) ==
    /\ IF which = 0
       THEN /\ pollingTimeoutRef # <<>>
            /\ pollFetches' = pollFetches \o pollChat(pollingTimeoutRef[1])
            /\ pollingTimeoutRef' = <<>>
            /\ pollTimers' = pollTimers
       ELSE /\ which \in 1..Len(pollTimers)
            /\ pollFetches' = pollFetches \o pollChat(pollTimers[which])
            /\ pollTimers' = RemoveAt(pollTimers, which)
            /\ pollingTimeoutRef' = pollingTimeoutRef
    /\ lastOp' = Other
    /\ UNCHANGED <<config, localStorage, authVars, storeVars, sendVars, connVars,
                   activeTab, chatMessages, chatNextPageToken, chatPollingInterval>>

\* the last n entries of seq: slice(-n)
LastN(seq, n) == IF Len(seq) <= n THEN seq ELSE SubSeq(seq, Len(seq) - n + 1, Len(seq))

\* the merge without the slice(-200) of line 148
MergeChat_NoSlice(prev, newMessages) ==
    LET existingIds == {prev[i] : i \in 1..Len(prev)}
        IsNew(m) == m \notin existingIds
        uniqueNew == SelectSeq(newMessages, IsNew)
    IN  IF uniqueNew = <<>> THEN prev
        ELSE prev \o uniqueNew

\* the merge without the existingIds filter of lines 145-146
MergeChat_NoFilter(prev, newMessages) ==
    IF newMessages = <<>> THEN prev
    ELSE LastN(prev \o newMessages, MaxChatLog)

\* the merge putting the new items in front: [...uniqueNew, ...prev]
MergeChat_Prepends(prev, newMessages) ==
    LET existingIds == {prev[i] : i \in 1..Len(prev)}
        IsNew(m) == m \notin existingIds
        uniqueNew == SelectSeq(newMessages, IsNew)
    IN  IF uniqueNew = <<>> THEN prev
        ELSE LastN(uniqueNew \o prev, MaxChatLog)

\* lines 143-149: the merge of a response's items into the log
MergeChat(prev, newMessages) ==
    LET existingIds == {prev[i] : i \in 1..Len(prev)}
        IsNew(m) == m \notin existingIds
        uniqueNew == SelectSeq(newMessages, IsNew)
    IN  IF uniqueNew = <<>> THEN prev
        ELSE LastN(prev \o uniqueNew, MaxChatLog)

\* line 127: Math.max(data.pollingIntervalMillis || 3000, 1000).  millis is
\* <<>> when the response has no pollingIntervalMillis, else <<n>>; the ||
\* takes the default for a missing value and for 0 alike
ClampInterval(millis) ==
    LET given == IF millis = <<>> \/ millis[1] = 0 THEN PollDefault ELSE millis[1]
    IN  IF given >= PollFloor THEN given ELSE PollFloor

\* the list_messages request i returns; resp.ok tells success from failure
\* (lines 124-159, from the await on); the history records the items and
\* the interval received
FetchReturns(i, resp) ==
    LET c == pollFetches[i]
        rest == RemoveAt(pollFetches, i)
        npt == IF resp.ok THEN resp.nextPageToken ELSE chatNextPageToken
        ivl == IF resp.ok THEN ClampInterval(resp.pollingIntervalMillis)
               ELSE chatPollingInterval
        \* finally: the next poll is scheduled with the closure's own pollChat
        ref == IF SchedulesNext(c) THEN <<c>> ELSE pollingTimeoutRef
        strays == IF SchedulesNext(c) THEN pollTimers \o pollingTimeoutRef
                  ELSE pollTimers
    IN  /\ i \in 1..Len(pollFetches)
        /\ chatNextPageToken' = npt
        /\ chatPollingInterval' = ivl
        /\ chatMessages' = IF resp.ok THEN MergeChat(chatMessages, resp.items)
                           ELSE chatMessages
        /\ PollEffect(npt # chatNextPageToken \/ ivl # chatPollingInterval,
                      activeTab, liveDetails, accessToken, npt, ivl, ref, strays, rest)
        /\ lastOp' = <<"FetchReturns", IF resp.ok THEN resp.items ELSE <<>>, resp.ok,
                       IF resp.ok THEN resp.pollingIntervalMillis ELSE <<>>>>
        /\ UNCHANGED <<config, localStorage, authVars, storeVars, sendVars, connVars,
                       activeTab>>

----------------------------------------------------------------------------
(* Connect (App.tsx:382-408, youtubeService.ts:28-59).                     *)

\* handleConnect without the token test of lines 383-386
handleConnect_NoTokenTest ==
    LET videoId == extractVideoId(config.streamUrl)
    IN  /\ lastOp' = <<"handleConnect", 0>>
        /\ IF videoId = NoId
           THEN \* the throw of line 394 is caught in the same task
                /\ liveDetails' = NoDetails
                /\ connectionError' = "video id not recognised"
                /\ isLoadingChat' = FALSE
                /\ connectRequests' = connectRequests
                /\ PollEffect(liveDetails # NoDetails, activeTab, NoDetails, accessToken,
                              chatNextPageToken, chatPollingInterval,
                              pollingTimeoutRef, pollTimers, pollFetches)
                /\ UNCHANGED <<activeTab, chatMessages, chatNextPageToken,
                               chatPollingInterval>>
           ELSE /\ connectionError' = Null
                /\ isLoadingChat' = TRUE
                /\ connectRequests' = Append(connectRequests,
                                             [videoId |-> videoId, token |-> accessToken])
                /\ Len(connectRequests') <= MaxInFlight
                /\ UNCHANGED <<liveDetails, pollVars>>
        /\ UNCHANGED <<config, localStorage, authVars, storeVars, sendVars>>

\* the failures of fetchLiveChatId, by the message each carries
ResolveErrors == {"provider error", "video not found", "no active chat"}

handleConnect ==
    LET videoId == extractVideoId(config.streamUrl)
    IN  /\ lastOp' = <<"handleConnect", 0>>
        /\ IF accessToken = ""
           THEN /\ connectionError' = "authorization required"
                /\ UNCHANGED <<liveDetails, isLoadingChat, connectRequests, pollVars>>
           ELSE IF videoId = NoId
           THEN \* the throw of line 394 is caught in the same task
                /\ liveDetails' = NoDetails
                /\ connectionError' = "video id not recognised"
                /\ isLoadingChat' = FALSE
                /\ connectRequests' = connectRequests
                /\ PollEffect(liveDetails # NoDetails, activeTab, NoDetails, accessToken,
                              chatNextPageToken, chatPollingInterval,
                              pollingTimeoutRef, pollTimers, pollFetches)
                /\ UNCHANGED <<activeTab, chatMessages, chatNextPageToken,
                               chatPollingInterval>>
           ELSE /\ connectionError' = Null
                /\ isLoadingChat' = TRUE
                /\ connectRequests' = Append(connectRequests,
                                             [videoId |-> videoId, token |-> accessToken])
                /\ Len(connectRequests') <= MaxInFlight
                /\ UNCHANGED <<liveDetails, pollVars>>
        /\ UNCHANGED <<config, localStorage, authVars, storeVars, sendVars>>

\* ConnectReturns without the setLiveDetails(null) of line 403
ConnectReturns_KeepsDetails(i, outcome) ==
    LET r == connectRequests[i]
        ld == IF outcome = "ok"
              THEN [liveChatId |-> ChatOf(r.videoId), title |-> TitleOf(r.videoId),
                    videoId |-> r.videoId]
              ELSE liveDetails
        npt == IF outcome = "ok" THEN Null ELSE chatNextPageToken
    IN  /\ i \in 1..Len(connectRequests)
        /\ connectRequests' = RemoveAt(connectRequests, i)
        /\ liveDetails' = ld
        /\ chatMessages' = IF outcome = "ok" THEN <<>> ELSE chatMessages
        /\ chatNextPageToken' = npt
        /\ connectionError' = IF outcome = "ok" THEN connectionError ELSE outcome
        /\ isLoadingChat' = FALSE
        \* a successful resolution installs a new object: the effect re-runs
        /\ PollEffect(outcome = "ok" \/ liveDetails # NoDetails \/ npt # chatNextPageToken,
                      activeTab, ld, accessToken, npt, chatPollingInterval,
                      pollingTimeoutRef, pollTimers, pollFetches)
        /\ lastOp' = <<"ConnectReturns", IF outcome = "ok" THEN 1 ELSE 0>>
        /\ UNCHANGED <<config, localStorage, authVars, storeVars, sendVars,
                       activeTab, chatPollingInterval>>

\* the resolve_live_chat request i returns: outcome is "ok" or a failure
ConnectReturns(i, outcome) ==
    LET r == connectRequests[i]
        ld == IF outcome = "ok"
              THEN [liveChatId |-> ChatOf(r.videoId), title |-> TitleOf(r.videoId),
                    videoId |-> r.videoId]
              ELSE NoDetails
        npt == IF outcome = "ok" THEN Null ELSE chatNextPageToken
    IN  /\ i \in 1..Len(connectRequests)
        /\ connectRequests' = RemoveAt(connectRequests, i)
        /\ liveDetails' = ld
        /\ chatMessages' = IF outcome = "ok" THEN <<>> ELSE chatMessages
        /\ chatNextPageToken' = npt
        /\ connectionError' = IF outcome = "ok" THEN connectionError ELSE outcome
        /\ isLoadingChat' = FALSE
        \* a successful resolution installs a new object: the effect re-runs
        /\ PollEffect(outcome = "ok" \/ liveDetails # NoDetails \/ npt # chatNextPageToken,
                      activeTab, ld, accessToken, npt, chatPollingInterval,
                      pollingTimeoutRef, pollTimers, pollFetches)
        /\ lastOp' = <<"ConnectReturns", IF outcome = "ok" THEN 1 ELSE 0>>
        /\ UNCHANGED <<config, localStorage, authVars, storeVars, sendVars,
                       activeTab, chatPollingInterval>>

----------------------------------------------------------------------------
(* The saved-message store (App.tsx:85-88, 279-379).                       *)
(* Positions are 1-based: position p is the JavaScript index p - 1.        *)

InsertAt(seq, pos, x) == SubSeq(seq, 1, pos - 1) \o <<x>> \o SubSeq(seq, pos, Len(seq))

Min(a, b) == IF a <= b THEN a ELSE b

\* messages.findIndex(m => m.id === id), 0 when there is none
FindIndex(list, id) ==
    LET S == {i \in 1..Len(list) : list[i].id = id}
    IN  IF S = {} THEN 0 ELSE SetMin(S)

\* updateMessages without the setItem of line 87
updateMessages_NoPersist(newMessages) ==
    /\ messages' = newMessages
    /\ localStorage' = localStorage

\* lines 85-88
updateMessages(newMessages) ==
    /\ messages' = newMessages
    /\ localStorage' = setItem(localStorage, MESSAGES_KEY, newMessages)

\* messageStates[id]?.status, Null when the id has no entry
RawStatus(states, id) == IF id \in DOMAIN states THEN states[id].status ELSE Null

\* the state a slot shows (line 571)
StatusOf(id) == IF id \in DOMAIN messageStates THEN messageStates[id].status ELSE IDLE

\* { ...prev, [id]: { id, status, errorMessage } }
WithState(states, id, status, err) ==
    [k \in DOMAIN states \cup {id} |->
        IF k = id THEN [id |-> id, status |-> status, errorMessage |-> err]
        ELSE states[k]]

\* handleUpdateMessageText without the status reset of lines 285-290
handleUpdateMessageText_NoReset(id, text) ==
    /\ updateMessages([i \in 1..Len(messages) |->
                          IF messages[i].id = id THEN [messages[i] EXCEPT !.text = text]
                          ELSE messages[i]])
    /\ messageStates' = messageStates
    /\ lastOp' = <<"handleUpdateMessageText", id, text, RawStatus(messageStates, id)>>
    /\ UNCHANGED <<config, authVars, filter, searchQuery, lastDeleted, undoTimeoutRef,
                   undoTimers, now,
                   quickMessage, quickMessageStatus, sendRequests, resetTimers,
                   connVars, pollVars>>

\* lines 279-291; the history records the id, the text and the status the
\* id had
handleUpdateMessageText(id, text) ==
    /\ updateMessages([i \in 1..Len(messages) |->
                          IF messages[i].id = id THEN [messages[i] EXCEPT !.text = text]
                          ELSE messages[i]])
    /\ messageStates' = IF RawStatus(messageStates, id) # IDLE
                        THEN WithState(messageStates, id, IDLE, Null)
                        ELSE messageStates
    /\ lastOp' = <<"handleUpdateMessageText", id, text, RawStatus(messageStates, id)>>
    /\ UNCHANGED <<config, authVars, filter, searchQuery, lastDeleted, undoTimeoutRef,
                   undoTimers, now,
                   quickMessage, quickMessageStatus, sendRequests, resetTimers,
                   connVars, pollVars>>

\* the millisecond clock advances
Tick ==
    /\ now < Len(DEFAULT_MESSAGES) + 1 + MaxClock
    /\ now' = now + 1
    /\ lastOp' = Other
    /\ UNCHANGED <<config, localStorage, authVars, messages, filter, searchQuery,
                   lastDeleted, undoTimeoutRef, undoTimers, sendVars, connVars, pollVars>>

\* lines 294-297: the new id is Date.now()
handleAddMessage ==
    /\ Cardinality({i \in 1..Len(messages) : messages[i].id > Len(DEFAULT_MESSAGES)}) < MaxAdded
    /\ updateMessages(Append(messages,
                             [id |-> now, text |-> "", isPinned |-> FALSE, isMain |-> FALSE]))
    /\ lastOp' = <<"handleAddMessage", 0>>
    /\ UNCHANGED <<config, authVars, filter, searchQuery, lastDeleted, undoTimeoutRef,
                   undoTimers, now,
                   sendVars, connVars, pollVars>>

\* lines 307-309, 334-337, 342-345: clearTimeout of the timer the ref
\* names, which is the one started last; the timers left pending
ClearUndoTimer ==
    IF undoTimeoutRef THEN RemoveAt(undoTimers, Len(undoTimers)) ELSE undoTimers

\* handleDeleteMessage without the clearTimeout of lines 307-309
handleDeleteMessage_NoClearTimeout(id) ==
    LET index == FindIndex(messages, id)
    IN  /\ lastOp' = <<"handleDeleteMessage", id, messages>>
        /\ IF index = 0
           THEN UNCHANGED <<messages, localStorage, lastDeleted, undoTimeoutRef, undoTimers>>
           ELSE IF messages[index].isPinned \/ messages[index].isMain
           THEN UNCHANGED <<messages, localStorage, lastDeleted, undoTimeoutRef, undoTimers>>
           ELSE /\ lastDeleted' = << [message |-> messages[index], index |-> index] >>
                /\ updateMessages(RemoveAt(messages, index))
                /\ undoTimeoutRef' = TRUE
                /\ undoTimers' = Append(undoTimers,
                                        [message |-> messages[index], index |-> index])
                /\ Len(undoTimers') <= MaxInFlight
        /\ UNCHANGED <<config, authVars, filter, searchQuery, now, sendVars, connVars,
                       pollVars>>

\* handleDeleteMessage with the isMain test of line 305 forgotten
handleDeleteMessage_NoMainTest(id) ==
    LET index == FindIndex(messages, id)
    IN  /\ lastOp' = <<"handleDeleteMessage", id, messages>>
        /\ IF index = 0
           THEN UNCHANGED <<messages, localStorage, lastDeleted, undoTimeoutRef, undoTimers>>
           ELSE IF messages[index].isPinned
           THEN UNCHANGED <<messages, localStorage, lastDeleted, undoTimeoutRef, undoTimers>>
           ELSE /\ lastDeleted' = << [message |-> messages[index], index |-> index] >>
                /\ updateMessages(RemoveAt(messages, index))
                /\ undoTimeoutRef' = TRUE
                /\ undoTimers' = Append(ClearUndoTimer,
                                        [message |-> messages[index], index |-> index])
        /\ UNCHANGED <<config, authVars, filter, searchQuery, now, sendVars, connVars,
                       pollVars>>

\* lines 300-321; the history records the list the handler found
handleDeleteMessage(id) ==
    LET index == FindIndex(messages, id)
    IN  /\ lastOp' = <<"handleDeleteMessage", id, messages>>
        /\ IF index = 0
           THEN UNCHANGED <<messages, localStorage, lastDeleted, undoTimeoutRef, undoTimers>>
           ELSE IF messages[index].isPinned \/ messages[index].isMain
           THEN UNCHANGED <<messages, localStorage, lastDeleted, undoTimeoutRef, undoTimers>>
           ELSE /\ lastDeleted' = << [message |-> messages[index], index |-> index] >>
                /\ updateMessages(RemoveAt(messages, index))
                \* the timer the ref named is cleared, a new one is started
                /\ undoTimeoutRef' = TRUE
                /\ undoTimers' = Append(ClearUndoTimer,
                                        [message |-> messages[index], index |-> index])
        /\ UNCHANGED <<config, authVars, filter, searchQuery, now, sendVars, connVars,
                       pollVars>>

\* lines 317-320: the pending expiry timer i fires; the history records
\* the snapshot it was started for
UndoTimerFires(i) ==
    /\ i \in 1..Len(undoTimers)
    /\ lastDeleted' = <<>>
    /\ undoTimeoutRef' = FALSE
    /\ undoTimers' = RemoveAt(undoTimers, i)
    /\ lastOp' = <<"UndoTimerFires", 0, undoTimers[i]>>
    /\ UNCHANGED <<config, localStorage, authVars, messages, filter, searchQuery, now,
                   sendVars, connVars, pollVars>>

\* handleUndoDelete reinserting at the tail instead of the recorded index
handleUndoDelete_AtTail ==
    /\ lastOp' = <<"handleUndoDelete", Len(lastDeleted)>>
    /\ IF lastDeleted = <<>>
       THEN UNCHANGED <<messages, localStorage, lastDeleted, undoTimeoutRef, undoTimers>>
       ELSE /\ updateMessages(Append(messages, lastDeleted[1].message))
            /\ lastDeleted' = <<>>
            /\ undoTimeoutRef' = FALSE
            /\ undoTimers' = ClearUndoTimer
    /\ UNCHANGED <<config, authVars, filter, searchQuery, now, sendVars, connVars, pollVars>>

\* lines 324-338; the history records whether there was a snapshot
handleUndoDelete ==
    /\ lastOp' = <<"handleUndoDelete", Len(lastDeleted)>>
    /\ IF lastDeleted = <<>>
       THEN UNCHANGED <<messages, localStorage, lastDeleted, undoTimeoutRef, undoTimers>>
       ELSE LET insertIndex == Min(lastDeleted[1].index, Len(messages) + 1)
            IN  /\ updateMessages(InsertAt(messages, insertIndex, lastDeleted[1].message))
                /\ lastDeleted' = <<>>
                /\ undoTimeoutRef' = FALSE
                /\ undoTimers' = ClearUndoTimer
    /\ UNCHANGED <<config, authVars, filter, searchQuery, now, sendVars, connVars, pollVars>>

\* lines 340-346
handleDismissUndo ==
    /\ lastDeleted' = <<>>
    /\ undoTimeoutRef' = FALSE
    /\ undoTimers' = ClearUndoTimer
    /\ lastOp' = <<"handleDismissUndo", 0>>
    /\ UNCHANGED <<config, localStorage, authVars, messages, filter, searchQuery, now,
                   sendVars, connVars, pollVars>>

KeepPinnedOrMain(m) == m.isPinned \/ m.isMain

\* handleDeleteAll without the setLastDeleted(null) of line 351
handleDeleteAll_KeepsUndo(confirmed) ==
    /\ lastOp' = <<"handleDeleteAll", IF confirmed THEN 1 ELSE 0>>
    /\ IF confirmed
       THEN /\ updateMessages(SelectSeq(messages, KeepPinnedOrMain))
            /\ lastDeleted' = lastDeleted
       ELSE UNCHANGED <<messages, localStorage, lastDeleted>>
    /\ UNCHANGED <<config, authVars, filter, searchQuery, undoTimeoutRef, undoTimers,
                   now, sendVars,
                   connVars, pollVars>>

\* lines 348-353; confirmed is the answer to window.confirm, which the
\* history records
handleDeleteAll(confirmed) ==
    /\ lastOp' = <<"handleDeleteAll", IF confirmed THEN 1 ELSE 0>>
    /\ IF confirmed
       THEN /\ updateMessages(SelectSeq(messages, KeepPinnedOrMain))
            /\ lastDeleted' = <<>>
       ELSE UNCHANGED <<messages, localStorage, lastDeleted>>
    /\ UNCHANGED <<config, authVars, filter, searchQuery, undoTimeoutRef, undoTimers,
                   now, sendVars,
                   connVars, pollVars>>

\* lines 355-360
handleTogglePin(id) ==
    /\ updateMessages([i \in 1..Len(messages) |->
                          IF messages[i].id = id
                          THEN [messages[i] EXCEPT !.isPinned = ~messages[i].isPinned]
                          ELSE messages[i]])
    /\ lastOp' = Other
    /\ UNCHANGED <<config, authVars, filter, searchQuery, lastDeleted, undoTimeoutRef,
                   undoTimers, now,
                   sendVars, connVars, pollVars>>

\* lines 362-368
handleSetMain(id) ==
    /\ updateMessages([i \in 1..Len(messages) |->
                          [messages[i] EXCEPT !.isMain =
                              IF messages[i].id = id THEN ~messages[i].isMain ELSE FALSE]])
    /\ lastOp' = Other
    /\ UNCHANGED <<config, authVars, filter, searchQuery, lastDeleted, undoTimeoutRef,
                   undoTimers, now,
                   sendVars, connVars, pollVars>>

\* lines 370-379; direction is "up" or "down"
handleMoveMessage(index, direction) ==
    LET targetIndex == IF direction = "up" THEN index - 1 ELSE index + 1
    IN  /\ lastOp' = <<"handleMoveMessage", index, direction>>
        /\ IF (direction = "up" /\ index = 1) \/ (direction = "down" /\ index = Len(messages))
           THEN UNCHANGED <<messages, localStorage>>
           ELSE updateMessages([messages EXCEPT ![index] = messages[targetIndex],
                                                ![targetIndex] = messages[index]])
        /\ UNCHANGED <<config, authVars, filter, searchQuery, lastDeleted, undoTimeoutRef, undoTimers,
                       now, sendVars, connVars, pollVars>>

\* lines 559-560: the filter buttons
setFilter(value) ==
    /\ filter' = value
    /\ lastOp' = Other
    /\ UNCHANGED <<config, localStorage, authVars, messages, searchQuery, lastDeleted,
                   undoTimeoutRef, undoTimers, now, sendVars, connVars, pollVars>>

\* line 553: typing in the search box
setSearchQuery(value) ==
    /\ searchQuery' = value
    /\ lastOp' = Other
    /\ UNCHANGED <<config, localStorage, authVars, messages, filter, lastDeleted,
                   undoTimeoutRef, undoTimers, now, sendVars, connVars, pollVars>>

\* text.toLowerCase().includes(query.toLowerCase()) on the texts and the
\* queries of this model, all lower case: the substring relation, tabulated
Includes(text, query) ==
    \/ query = ""
    \/ <<text, query>> \in {<<"how are you", "you">>, <<"how are you", "a">>,
                              <<"hello all", "a">>, <<"great stream", "a">>}

\* lines 467-471
filteredMessages ==
    LET Shown(msg) == (filter = "all" \/ msg.isPinned) /\ Includes(msg.text, searchQuery)
    IN  SelectSeq(messages, Shown)

\* part_001:55-65: the arrows of the slot shown at position index of the
\* filtered list; each is disabled at its end of that list
moveDisabled(index, direction) ==
    \/ direction = "up" /\ index = 1
    \/ direction = "down" /\ index = Len(filteredMessages)

----------------------------------------------------------------------------
(* The send orchestrator (App.tsx:411-464).  The quick message is slot 0.  *)

QuickSlot == 0

\* lines 411-414: the requests sendToYoutube issues, as a sequence of 0 or 1
sendToYoutube(slot, text) ==
    IF LiveChatIdOf(liveDetails) = NoId \/ accessToken = ""
    THEN <<>>
    ELSE << [slot |-> slot, text |-> text, liveChatId |-> LiveChatIdOf(liveDetails),
             token |-> accessToken] >>

\* lines 422-437, up to the await
handleSendMessage(id, text) ==
    /\ messageStates' = WithState(messageStates, id, SENDING, Null)
    /\ sendRequests' = sendRequests \o sendToYoutube(id, text)
    /\ Len(sendRequests') <= MaxSends
    /\ lastOp' = Other
    /\ UNCHANGED <<config, localStorage, authVars, storeVars, quickMessage,
                   quickMessageStatus, resetTimers, connVars, pollVars>>

\* lines 459-464
handleSendMainMessage ==
    LET S == {i \in 1..Len(messages) : messages[i].isMain}
    IN  IF S = {}
        THEN /\ lastOp' = Other
             /\ UNCHANGED <<config, localStorage, authVars, storeVars, sendVars, connVars,
                            pollVars>>
        ELSE handleSendMessage(messages[SetMin(S)].id, messages[SetMin(S)].text)

\* line 648: typing in the quick input
setQuickMessage(text) ==
    /\ quickMessage' = text
    /\ lastOp' = Other
    /\ UNCHANGED <<config, localStorage, authVars, storeVars, quickMessageStatus,
                   messageStates, sendRequests, resetTimers, connVars, pollVars>>

\* handleSendQuickMessage without the trim test of line 441
handleSendQuickMessage_NoBlankTest ==
    /\ lastOp' = <<"handleSendQuickMessage", 0>>
    /\ quickMessageStatus' = SENDING
    /\ sendRequests' = sendRequests \o sendToYoutube(QuickSlot, quickMessage)
    /\ Len(sendRequests') <= MaxSends
    /\ UNCHANGED <<config, localStorage, authVars, storeVars, quickMessage, messageStates,
                   resetTimers, connVars, pollVars>>

\* lines 440-457, up to the await
handleSendQuickMessage ==
    /\ lastOp' = <<"handleSendQuickMessage", 0>>
    /\ IF Blank(quickMessage)
       THEN UNCHANGED <<quickMessageStatus, sendRequests>>
       ELSE /\ quickMessageStatus' = SENDING
            /\ sendRequests' = sendRequests \o sendToYoutube(QuickSlot, quickMessage)
            /\ Len(sendRequests') <= MaxSends
    /\ UNCHANGED <<config, localStorage, authVars, storeVars, quickMessage, messageStates,
                   resetTimers, connVars, pollVars>>

\* SendReturns with the error callback of line 434 not spreading prev
SendReturns_DropsOthers(i, err) ==
    LET r == sendRequests[i]
    IN  /\ i \in 1..Len(sendRequests)
        /\ sendRequests' = RemoveAt(sendRequests, i)
        /\ IF r.slot = QuickSlot
           THEN /\ quickMessageStatus' = IF err = Null THEN SUCCESS ELSE ERROR
                /\ quickMessage' = IF err = Null THEN "" ELSE quickMessage
                /\ resetTimers' = Append(resetTimers, QuickSlot)
                /\ UNCHANGED messageStates
           ELSE /\ messageStates' = IF err = Null
                                    THEN WithState(messageStates, r.slot, SUCCESS, Null)
                                    ELSE WithState(<<>>, r.slot, ERROR, err)
                /\ resetTimers' = IF err = Null THEN Append(resetTimers, r.slot)
                                  ELSE resetTimers
                /\ UNCHANGED <<quickMessage, quickMessageStatus>>
        /\ Len(resetTimers') <= MaxResetTimers
        /\ lastOp' = <<"SendReturns", r.slot, err>>
        /\ UNCHANGED <<config, localStorage, authVars, storeVars, connVars, pollVars>>

\* the send_message request i returns: err is Null on success, else the
\* failure's message (the onSuccess / onError callbacks); the history
\* records the slot and the outcome
SendReturns(i, err) ==
    LET r == sendRequests[i]
    IN  /\ i \in 1..Len(sendRequests)
        /\ sendRequests' = RemoveAt(sendRequests, i)
        /\ IF r.slot = QuickSlot
           THEN /\ quickMessageStatus' = IF err = Null THEN SUCCESS ELSE ERROR
                /\ quickMessage' = IF err = Null THEN "" ELSE quickMessage
                /\ resetTimers' = Append(resetTimers, QuickSlot)
                /\ UNCHANGED messageStates
           ELSE /\ messageStates' = IF err = Null
                                    THEN WithState(messageStates, r.slot, SUCCESS, Null)
                                    ELSE WithState(messageStates, r.slot, ERROR, err)
                /\ resetTimers' = IF err = Null THEN Append(resetTimers, r.slot)
                                  ELSE resetTimers
                /\ UNCHANGED <<quickMessage, quickMessageStatus>>
        /\ Len(resetTimers') <= MaxResetTimers
        /\ lastOp' = <<"SendReturns", r.slot, err>>
        /\ UNCHANGED <<config, localStorage, authVars, storeVars, connVars, pollVars>>

\* a status-reset timer fires (lines 429-431, 449, 454)
ResetTimerFires(i) ==
    LET slot == resetTimers[i]
    IN  /\ i \in 1..Len(resetTimers)
        /\ resetTimers' = RemoveAt(resetTimers, i)
        /\ IF slot = QuickSlot
           THEN /\ quickMessageStatus' = IDLE
                /\ UNCHANGED messageStates
           ELSE /\ messageStates' = WithState(messageStates, slot, IDLE, Null)
                /\ UNCHANGED quickMessageStatus
        /\ lastOp' = <<"ResetTimerFires", slot>>
        /\ UNCHANGED <<config, localStorage, authVars, storeVars, quickMessage,
                       sendRequests, connVars, pollVars>>

\* MessageSlot send button disabled (App.tsx:578 and the slot's own test)
sendDisabled(msg) ==
    \/ LiveChatIdOf(liveDetails) = NoId \/ accessToken = ""
    \/ Blank(msg.text)
    \/ StatusOf(msg.id) = SENDING

\* App.tsx:652: the quick input is disabled
quickInputDisabled == LiveChatIdOf(liveDetails) = NoId \/ quickMessageStatus = SENDING

\* SettingsPanel.tsx:247: the connect button is disabled
connectDisabled == config.streamUrl = <<>> \/ accessToken = "" \/ isLoadingChat

----------------------------------------------------------------------------
(* The poller under tab switches, token changes, stream changes and        *)
(* reconnects.                                                             *)

PollTokens == {"", "tok1"}
PollUrls == {UrlShortA, UrlBad}
PageTokens == {"p1", "p2"}

\* what list_messages may answer: a failure, or a page
PollResponses ==
    {[ok |-> FALSE]} \cup
    [ok : {TRUE}, nextPageToken : PageTokens, pollingIntervalMillis : {<<>>, <<500>>},
     items : {<<>>, <<1>>}]

NextPoll ==
    \/ \E tab \in {"saved", "chat"} : setActiveTab(tab)
    \/ \E token \in PollTokens : updateAccessToken(token)
    \/ \E url \in PollUrls : handleSaveConfig([config EXCEPT !.streamUrl = url])
    \/ ~connectDisabled /\ handleConnect
    \/ \E i \in 1..Len(connectRequests), o \in {"ok", "no active chat"} : ConnectReturns(i, o)
    \/ \E which \in 0..Len(pollTimers) : PollTimerFires(which)
    \/ \E i \in 1..Len(pollFetches), resp \in PollResponses : FetchReturns(i, resp)

SpecPoll == Init /\ [][NextPoll]_vars

----------------------------------------------------------------------------
(* The saved-message store under every store operation.                    *)

IdsIn(list) == {list[i].id : i \in 1..Len(list)}

\* the ids and positions the operator acts on
PinIds == {1, 2}
MainIds == {1, 2}
DeleteIds == {1, 2, 5}
EditIds == {2}
MoveIndexes == {1, 2}

NextStore ==
    \/ \E id \in DeleteIds : handleDeleteMessage(id)
    \/ handleUndoDelete
    \/ handleDismissUndo
    \/ \E i \in 1..Len(undoTimers) : UndoTimerFires(i)
    \/ \E confirmed \in BOOLEAN : handleDeleteAll(confirmed)
    \/ \E id \in PinIds : handleTogglePin(id)
    \/ \E id \in MainIds : handleSetMain(id)
    \/ \E index \in MoveIndexes, direction \in {"up", "down"} :
          index <= Len(messages) /\ handleMoveMessage(index, direction)
    \/ \E id \in EditIds : handleUpdateMessageText(id, "edited")

SpecStore == Init /\ [][NextStore]_vars

MainCount == Cardinality({i \in 1..Len(messages) : messages[i].isMain})

\* the last step was the handler op
LastOpIs(op) == lastOp[1] = op

\* the message a delete of id looks at
DeleteTarget(list, id) == list[FindIndex(list, id)]

\* C9: deleting a pinned or main message changes nothing: the list, its
\* persisted copy, the undo snapshot and the snapshot's expiry timer all stay
\* as they were.
C9_DeletePinnedOrMainIsNoOp ==
    [][(/\ lastOp'[1] = "handleDeleteMessage"
        /\ FindIndex(messages, lastOp'[2]) # 0
        /\ \/ DeleteTarget(messages, lastOp'[2]).isPinned
           \/ DeleteTarget(messages, lastOp'[2]).isMain)
       => UNCHANGED <<messages, localStorage, lastDeleted, undoTimeoutRef>>]_vars

\* a delete of a main message has just been rejected while an undo snapshot
\* and its timer exist
C9_Witness ==
    /\ LastOpIs("handleDeleteMessage")
    /\ FindIndex(messages, lastOp[2]) # 0
    /\ DeleteTarget(messages, lastOp[2]).isMain
    /\ ~DeleteTarget(messages, lastOp[2]).isPinned
    /\ lastDeleted # <<>>
    /\ undoTimeoutRef

\* C10: undo reinserts the snapshot's message unchanged at position
\* min(original index, list length) and empties the undo slot; an undo with
\* an empty slot changes nothing; an undo right after a delete gives back the
\* list the delete found.
C10_UndoRestores ==
    [][(lastOp'[1] = "handleUndoDelete") =>
          /\ lastDeleted' = <<>>
          /\ IF lastDeleted = <<>>
             THEN UNCHANGED <<messages, localStorage, undoTimeoutRef>>
             ELSE /\ messages' = InsertAt(messages,
                                          Min(lastDeleted[1].index, Len(messages) + 1),
                                          lastDeleted[1].message)
                  /\ (LastOpIs("handleDeleteMessage") /\ messages # lastOp[3])
                        => messages' = lastOp[3]]_vars

\* an undo has just restored a message in the middle of the list
C10_Witness ==
    /\ LastOpIs("handleUndoDelete")
    /\ lastOp[2] = 1
    /\ lastDeleted = <<>>
    /\ Len(messages) = Len(DEFAULT_MESSAGES)
    /\ messages[2].id = 2

\* the positions of list holding a pinned or main message
KeptPositions(list) == {i \in 1..Len(list) : list[i].isPinned \/ list[i].isMain}

\* the j-th of them, counted from the head
NthKept(list, j) ==
    CHOOSE i \in KeptPositions(list) :
        Cardinality({k \in KeptPositions(list) : k < i}) = j - 1

\* C25: a confirmed delete-all leaves exactly the pinned or main messages in
\* their order and empties the undo slot, so that an undo right after it
\* changes nothing; a declined delete-all changes nothing.
C25_DeleteAllKeepsPinnedAndMain ==
    /\ [][(lastOp'[1] = "handleDeleteAll") =>
            IF lastOp'[2] = 1
            THEN /\ Len(messages') = Cardinality(KeptPositions(messages))
                 /\ \A j \in 1..Len(messages') : messages'[j] = messages[NthKept(messages, j)]
                 /\ lastDeleted' = <<>>
            ELSE UNCHANGED <<messages, localStorage, lastDeleted, undoTimeoutRef>>]_vars
    /\ [][(LastOpIs("handleDeleteAll") /\ lastOp[2] = 1 /\ lastOp'[1] = "handleUndoDelete") =>
            UNCHANGED <<messages, localStorage, lastDeleted>>]_vars

\* an undo has just been ignored after a confirmed delete-all that removed
\* messages while an undo offer was pending and kept a main message that is
\* not pinned
C25_Witness ==
    /\ LastOpIs("handleUndoDelete")
    /\ lastOp[2] = 0
    /\ undoTimeoutRef
    /\ Len(messages) \in 1..2
    /\ \E i \in 1..Len(messages) : messages[i].isMain /\ ~messages[i].isPinned

\* a confirmed delete-all has just emptied a pending undo offer
C25_WitnessDeleteAll ==
    /\ LastOpIs("handleDeleteAll")
    /\ lastOp[2] = 1
    /\ undoTimeoutRef
    /\ lastDeleted = <<>>
    /\ Len(messages) = 2

----------------------------------------------------------------------------
(* Connecting, with the connect handler invoked whatever the button shows. *)

ConnectUrls == {UrlShortA, UrlBad}

ConnectOutcomes == {"ok", "video not found", "no active chat"}

ConnectResponses ==
    {[ok |-> FALSE]} \cup
    [ok : {TRUE}, nextPageToken : {"p1"}, pollingIntervalMillis : {<<>>}, items : {<<1>>}]

NextConnect ==
    \/ setActiveTab("chat")
    \/ \E token \in PollTokens : updateAccessToken(token)
    \/ \E url \in ConnectUrls :
          handleSaveConfig([config EXCEPT !.streamUrl = url, !.clientId = "X"])
    \/ handleConnect
    \/ \E i \in 1..Len(connectRequests), o \in ConnectOutcomes : ConnectReturns(i, o)
    \/ \E which \in 0..Len(pollTimers) : PollTimerFires(which)
    \/ \E i \in 1..Len(pollFetches), resp \in ConnectResponses : FetchReturns(i, resp)

SpecConnect == Init /\ [][NextConnect]_vars

\* C11: a connect with an empty token sets the 'authorization required'
\* error, issues no request, and leaves liveDetails, the chat log and the
\* continuation token as they were.
C11_ConnectNeedsToken ==
    [][(lastOp'[1] = "handleConnect" /\ accessToken = "") =>
          /\ connectionError' = "authorization required"
          /\ UNCHANGED <<liveDetails, chatMessages, chatNextPageToken, isLoadingChat,
                         connectRequests, pollFetches>>]_vars

\* a connect has just been rejected for lack of a token while a resolved
\* chat, a chat log and a continuation token are held
C11_Witness ==
    /\ LastOpIs("handleConnect")
    /\ accessToken = ""
    /\ connectionError = "authorization required"
    /\ liveDetails # NoDetails
    /\ chatMessages # <<>>
    /\ chatNextPageToken # Null

\* the step is a connect attempt failing at resolution: no video id in the
\* stream URL, or a failed resolve_live_chat
FailsAtResolution ==
    \/ /\ lastOp'[1] = "handleConnect"
       /\ accessToken # ""
       /\ extractVideoId(config.streamUrl) = NoId
    \/ /\ lastOp'[1] = "ConnectReturns"
       /\ lastOp'[2] = 0

\* C12: after a connect attempt that fails at resolution liveDetails is null
\* and a connection error is set; liveDetails becomes non-null only by a
\* resolution that returned a live-chat-id.
C12_FailedConnectClears ==
    [][/\ FailsAtResolution => (liveDetails' = NoDetails /\ connectionError' # Null)
       /\ (liveDetails' # liveDetails /\ liveDetails' # NoDetails) =>
             /\ lastOp'[1] = "ConnectReturns"
             /\ lastOp'[2] = 1
             /\ LiveChatIdOf(liveDetails') # NoId]_vars

\* a resolution has just failed after an earlier one had succeeded and its
\* chat had been read
C12_Witness ==
    /\ LastOpIs("ConnectReturns")
    /\ lastOp[2] = 0
    /\ liveDetails = NoDetails
    /\ connectionError = "no active chat"
    /\ chatMessages # <<>>

\* C13: a save with a different stream URL clears liveDetails, the chat log
\* and the continuation token; a save with the same stream URL leaves the
\* three unchanged.
C13_SaveClearsOnUrlChange ==
    [][(lastOp'[1] = "handleSaveConfig") =>
          IF config'.streamUrl # config.streamUrl
          THEN /\ liveDetails' = NoDetails
               /\ chatMessages' = <<>>
               /\ chatNextPageToken' = Null
          ELSE UNCHANGED <<liveDetails, chatMessages, chatNextPageToken>>]_vars

\* a save has just changed the stream URL while a request of the formerly
\* resolved chat is still in flight
C13_Witness ==
    /\ LastOpIs("handleSaveConfig")
    /\ lastOp[2] = 1
    /\ liveDetails = NoDetails
    /\ chatMessages = <<>>
    /\ chatNextPageToken = Null
    /\ \E i \in 1..Len(pollFetches) :
          /\ pollFetches[i].liveDetails # NoDetails
          /\ pollFetches[i].chatNextPageToken # Null

\* a save with the same stream URL has just kept a resolved chat and its log
C13_WitnessSameUrl ==
    /\ LastOpIs("handleSaveConfig")
    /\ lastOp[2] = 0
    /\ liveDetails # NoDetails
    /\ chatMessages # <<>>

----------------------------------------------------------------------------
(* The resolver on stream URLs: the operator saves a URL and connects.     *)

Https == <<"h","t","t","p","s",":","/","/">>
Www == <<"w","w","w",".">>
FeatureParam == <<"f","e","a","t","u","r","e","=","s","h","a","r","e">>
VideoC == <<"a","-","b","_","c","-","d","_","e","-","f">>

UrlPrefixes == {<<>>, Https \o Www}

\* short link, embed, /v/, watch with v first, watch with v second, /live/
UrlForms ==
    {YoutuBe, YoutubeCom \o EmbedMark, YoutubeCom \o VMark, YoutubeCom \o WatchVMark,
     YoutubeCom \o WatchMark \o FeatureParam \o AmpVMark, YoutubeCom \o LiveMark}

VideoIds == {VideoB, VideoC}

\* nothing, a query, a further parameter, a fragment, path text
UrlSuffixes ==
    {<<>>, <<"?","t","=","4","2">>, <<"&","t","=","4","2","s">>, <<"#","t","o","p">>, <<"/","c","h","a","t">>,
     <<"?","s","i","=","A","b","C","d","E","f","G","h","I","j","K","l","M","n","O","p">>}

StandardUrl(prefix, form, id, suffix) == prefix \o form \o id \o suffix

StandardUrls ==
    {StandardUrl(p, f, id, x) : p \in UrlPrefixes, f \in UrlForms, id \in VideoIds,
                                x \in UrlSuffixes}

\* inputs with no id in them: text, a 10-character token, 11 characters
\* with a blank, a marker followed by too short or too long a capture
NonIdInputs ==
    {<<>>, UrlBad, <<"h","e","l","l","o"," ","w","o","r","l","d">>, <<"a","b","c","d","e","f","g","h","i","j">>,
     <<"a","b","c","d","e"," ","f","g","h","i","j"," ","k","l","m","n","o">>,
     YoutuBe \o <<"s","h","o","r","t">>, YoutubeCom \o WatchVMark \o <<"a","b","c">>,
     YoutuBe \o <<"a","b","c"," ","d","e","f"," ","g","h","i"," ","j","k","l">>}

\* a marker followed by 11 characters that are not all id characters: a
\* path, a text with blanks
OddCaptures ==
    {Https \o YoutuBe \o <<"l","i","v","e","/","s","t","r","e","a","m">>,
     YoutubeCom \o LiveMark \o <<"m","y"," ","c","h","a","n","n","e","l","!">>}

NextExtract ==
    \/ updateAccessToken("tok1")
    \/ \E url \in StandardUrls \cup NonIdInputs \cup OddCaptures :
          handleSaveConfig([config EXCEPT !.streamUrl = url])
    \/ ~isLoadingChat /\ handleConnect
    \/ \E i \in 1..Len(connectRequests) : ConnectReturns(i, "ok")

SpecExtract == Init /\ [][NextExtract]_vars

\* the step is a connect that gets as far as the resolver
ConnectResolves == lastOp'[1] = "handleConnect" /\ accessToken # ""

\* C16: for a standard-form URL (short link, embed, watch, /live/) embedding
\* an 11-character id, whatever query, fragment or path text follows the id,
\* the resolver returns exactly the embedded id.
C16_StandardUrlYieldsId ==
    [][ConnectResolves =>
          \A p \in UrlPrefixes, f \in UrlForms, id \in VideoIds, x \in UrlSuffixes :
              config.streamUrl = StandardUrl(p, f, id, x) =>
                  /\ extractVideoId(config.streamUrl) = id
                  /\ connectRequests' =
                        Append(connectRequests, [videoId |-> id, token |-> accessToken])]_vars

\* a connect has just resolved the id of a watch URL whose id is followed by
\* path text
C16_Witness ==
    /\ LastOpIs("handleConnect")
    /\ config.streamUrl =
          StandardUrl(Https \o Www, YoutubeCom \o WatchVMark, VideoB, <<"/","c","h","a","t">>)
    /\ connectRequests # <<>>
    /\ connectRequests[Len(connectRequests)].videoId = VideoB

\* url holds a run of 11 consecutive id characters
HasIdRun(url) ==
    \E i \in 1..(Len(url) - IdLength + 1) :
        \A k \in i..(i + IdLength - 1) : url[k] \in IdChars

\* C17: for an input with no run of 11 id characters and no URL marker
\* followed by an 11-character capture (the empty string included) the
\* resolver returns null: the connect fails without a request.
C17_NoIdYieldsNull ==
    [][(/\ ConnectResolves
        /\ ~HasIdRun(config.streamUrl)
        /\ Len(RegExpCapture(config.streamUrl)) # IdLength) =>
          /\ extractVideoId(config.streamUrl) = NoId
          /\ connectRequests' = connectRequests
          /\ liveDetails' = NoDetails
          /\ connectionError' = "video id not recognised"]_vars

\* a connect has just failed on an 11-character input that is no id
C17_Witness ==
    /\ LastOpIs("handleConnect")
    /\ accessToken # ""
    /\ Len(config.streamUrl) = IdLength
    /\ ~HasIdRun(config.streamUrl)
    /\ connectionError = "video id not recognised"
    /\ connectRequests = <<>>


\* C40: whenever the resolver returns a value, the value is exactly 11
\* characters long and holds only letters, digits, '_' and '-', for every
\* input: so is the video id of every resolve request a connect issues.
C40_IdIsWellFormed ==
    [][(ConnectResolves /\ extractVideoId(config.streamUrl) # NoId) =>
          LET id == extractVideoId(config.streamUrl)
          IN  /\ Len(id) = IdLength
              /\ \A k \in 1..Len(id) : id[k] \in IdChars]_vars

----------------------------------------------------------------------------
(* The chat log under large responses.                                     *)

Range(a, b) == [i \in 1..(b - a + 1) |-> a + i - 1]

ChatBatches ==
    {<<>>, Range(1, MaxChatLog), <<MaxChatLog, MaxChatLog + 1>>}

ChatResponses ==
    {[ok |-> FALSE]} \cup
    [ok : {TRUE}, nextPageToken : {"p1"}, pollingIntervalMillis : {<<>>},
     items : ChatBatches]

NextChat ==
    \/ setActiveTab("chat")
    \/ updateAccessToken("tok1")
    \/ handleSaveConfig([config EXCEPT !.streamUrl = UrlShortA])
    \/ ~connectDisabled /\ handleConnect
    \/ \E i \in 1..Len(connectRequests) : ConnectReturns(i, "ok")
    \/ \E which \in 0..Len(pollTimers) : PollTimerFires(which)
    \/ \E i \in 1..Len(pollFetches), resp \in ChatResponses : FetchReturns(i, resp)

SpecChat == Init /\ [][NextChat]_vars

LogIds(log) == {log[i] : i \in 1..Len(log)}

\* the items of a response that are not yet in the log
Accepted(log, items) ==
    LET ids == LogIds(log)
        Fresh(m) == m \notin ids
    IN  SelectSeq(items, Fresh)

Count(log, id) == Cardinality({i \in 1..Len(log) : log[i] = id})

\* the response the step just merged, when the step is a successful fetch
MergedItems == lastOp'[2]
IsMerge == lastOp'[1] = "FetchReturns" /\ lastOp'[3]

\* C6: the chat log never holds more than 200 entries, and a merge leaves
\* exactly the last 200 entries of the previous log followed by the newly
\* accepted items.
C6_ChatLogIsLast200 ==
    /\ [](Len(chatMessages) <= MaxChatLog)
    /\ [][IsMerge =>
            LET all == chatMessages \o Accepted(chatMessages, MergedItems)
            IN  chatMessages' = IF Len(all) <= MaxChatLog THEN all
                                ELSE SubSeq(all, Len(all) - MaxChatLog + 1, Len(all))]_vars

\* a merge has just evicted the oldest entries of a full log
C6_Witness ==
    /\ LastOpIs("FetchReturns")
    /\ lastOp[2] = <<MaxChatLog, MaxChatLog + 1>>
    /\ Len(chatMessages) = MaxChatLog
    /\ chatMessages[1] = 2
    /\ chatMessages[MaxChatLog] = MaxChatLog + 1

\* C7: merging an item whose id is already in the log adds no second entry
\* with that id and leaves the existing entries in their order; a response of
\* known items only leaves the log as it was.
C7_KnownItemIsNoOp ==
    [][(IsMerge /\ \E j \in 1..Len(MergedItems) : MergedItems[j] \in LogIds(chatMessages)) =>
          LET known == LogIds(chatMessages)
              fresh == Accepted(chatMessages, MergedItems)
              evicted == Len(chatMessages) + Len(fresh) - Len(chatMessages')
              kept == Len(chatMessages) - evicted
          IN  /\ evicted >= 0
              /\ kept >= 0 =>
                    /\ SubSeq(chatMessages', 1, kept)
                          = SubSeq(chatMessages, evicted + 1, Len(chatMessages))
                    /\ \A p \in (kept + 1)..Len(chatMessages') : chatMessages'[p] \notin known
              /\ fresh = <<>> => chatMessages' = chatMessages]_vars

\* a response mixing a known item with new ones has just been merged, and the
\* known item is in the log once
C7_Witness ==
    /\ LastOpIs("FetchReturns")
    /\ lastOp[2] = <<MaxChatLog, MaxChatLog + 1>>
    /\ Count(chatMessages, MaxChatLog) = 1
    /\ chatMessages[Len(chatMessages) - 1] = MaxChatLog
    /\ chatMessages[Len(chatMessages)] = MaxChatLog + 1
    /\ Len(chatMessages) > 2

\* the entries of log whose id is in ids, in their order
Restrict(log, ids) ==
    LET In(m) == m \in ids
    IN  SelectSeq(log, In)

\* C28: the accepted items of a response are at the tail of the log in the
\* order of the response, and no step changes the relative order of two
\* entries that are in the log before and after it.
C28_AppendedInResponseOrder ==
    /\ [][chatMessages' # chatMessages =>
            Restrict(chatMessages, LogIds(chatMessages'))
               = Restrict(chatMessages', LogIds(chatMessages))]_vars
    /\ [][IsMerge =>
            LET fresh == Accepted(chatMessages, MergedItems)
                n == Min(Len(fresh), Len(chatMessages'))
            IN  SubSeq(chatMessages', Len(chatMessages') - n + 1, Len(chatMessages'))
                   = SubSeq(fresh, Len(fresh) - n + 1, Len(fresh))]_vars

\* a page of older items has just been appended behind newer ones: the log
\* is in arrival order, not in id order, and its oldest entry was evicted
C28_Witness ==
    /\ LastOpIs("FetchReturns")
    /\ lastOp[2] = Range(1, MaxChatLog)
    /\ Len(chatMessages) = MaxChatLog
    /\ chatMessages[1] = MaxChatLog + 1
    /\ chatMessages[2] = 1
    /\ chatMessages[MaxChatLog] = MaxChatLog - 1

----------------------------------------------------------------------------
(* Sending (App.tsx:411-464) behind the controls that invoke it.           *)

SendIds == {1}

SendErrors == {Null, "quota exceeded"}

\* what the operator types in the quick input: nothing, a blank, a text
QuickTexts == {"", " ", "hi"}

\* the guard of line 412 fails
SendGuardFails == LiveChatIdOf(liveDetails) = NoId \/ accessToken = ""

NextSend ==
    \/ \E token \in PollTokens : updateAccessToken(token)
    \/ handleSaveConfig([config EXCEPT !.streamUrl = UrlShortA])
    \/ ~connectDisabled /\ handleConnect
    \/ \E i \in 1..Len(connectRequests) : ConnectReturns(i, "ok")
    \/ \E i \in 1..Len(messages) :
          /\ messages[i].id \in SendIds
          /\ ~sendDisabled(messages[i])
          /\ handleSendMessage(messages[i].id, messages[i].text)
    \/ ~SendGuardFails /\ handleSendMainMessage
    \/ \E text \in QuickTexts : ~quickInputDisabled /\ setQuickMessage(text)
    \/ ~quickInputDisabled /\ handleSendQuickMessage
    \/ \E i \in 1..Len(sendRequests), err \in SendErrors : SendReturns(i, err)
    \/ \E i \in 1..Len(resetTimers) : ResetTimerFires(i)
    \/ \E id \in SendIds : handleUpdateMessageText(id, "edited")
    \/ \E id \in SendIds : handleSetMain(id)

SpecSend == Init /\ [][NextSend]_vars

\* a status-reset timer fires in this step
TimerFired == Len(resetTimers') < Len(resetTimers)

\* C3: while the chat id is absent or the token is empty, a send issues no
\* request and turns no slot's status into SENDING.
C3_GuardedSendIsNoOp ==
    [][SendGuardFails =>
          /\ Len(sendRequests') <= Len(sendRequests)
          /\ quickMessageStatus' = SENDING => quickMessageStatus = SENDING
          /\ \A id \in IdsIn(messages) :
                StatusOf(id)' = SENDING => StatusOf(id) = SENDING]_vars

\* C4: a reset timer left from an earlier send does not change the SENDING
\* status a later send on the same slot produced.
C4_StaleResetKeepsStatus ==
    [][TimerFired =>
          \A id \in IdsIn(messages) :
              StatusOf(id) = SENDING => StatusOf(id)' = SENDING]_vars

\* C5: no timer moves a saved slot out of ERROR.
C5_ErrorStaysUntilEditOrSend ==
    [][TimerFired =>
          \A id \in IdsIn(messages) :
              StatusOf(id) = ERROR => StatusOf(id)' = ERROR]_vars

\* C20: no timer moves the quick message's status out of ERROR; it stays
\* ERROR until the quick message is edited or sent again.
C20_QuickErrorStaysUntilEditOrSend ==
    [][TimerFired =>
          (quickMessageStatus = ERROR => quickMessageStatus' = ERROR)]_vars

\* the step belongs to a quick send: its start, its completion or its timer
QuickSendStep ==
    \/ lastOp'[1] = "handleSendQuickMessage"
    \/ lastOp'[1] \in {"SendReturns", "ResetTimerFires"} /\ lastOp'[2] = QuickSlot

\* C21: a quick send changes no saved slot's status; its success clears the
\* quick input text and its failure keeps it; a quick send of an empty or
\* whitespace-only text does nothing.
C21_QuickSendOwnsItsSlot ==
    [][/\ QuickSendStep => UNCHANGED <<messageStates, messages>>
       /\ (lastOp'[1] = "SendReturns" /\ lastOp'[2] = QuickSlot) =>
             quickMessage' = IF lastOp'[3] = Null THEN "" ELSE quickMessage
       /\ (lastOp'[1] = "handleSendQuickMessage" /\ Blank(quickMessage)) =>
             UNCHANGED <<quickMessage, quickMessageStatus, messageStates, sendRequests,
                         resetTimers, messages, localStorage>>]_vars

\* a quick send has just failed while a saved slot is being sent: the quick
\* text is kept and the saved slot still shows SENDING
C21_Witness ==
    /\ LastOpIs("SendReturns")
    /\ lastOp[2] = QuickSlot
    /\ lastOp[3] # Null
    /\ quickMessage = "hi"
    /\ quickMessageStatus = ERROR
    /\ \E id \in IdsIn(messages) : StatusOf(id) = SENDING

\* a quick send of a whitespace-only text has just been ignored
C21_WitnessBlank ==
    /\ LastOpIs("handleSendQuickMessage")
    /\ quickMessage = " "
    /\ quickMessageStatus = IDLE
    /\ sendRequests = <<>>
    /\ LiveChatIdOf(liveDetails) # NoId

----------------------------------------------------------------------------
(* The tokens under authorization, refresh, manual entry and log out.      *)

\* what Google answers: a token response (types.ts:165, 188; App.tsx:260)
\* or a failure (types.ts:160-163, 183-186; App.tsx:249-250, 265-266)
AuthResponses ==
    [ok : {TRUE}, code : {TRUE}, access_token : {"tok2"}, refresh_token : {"", "r2"},
     error_description : {""}]
    \cup [ok : {FALSE}, code : BOOLEAN, access_token : {""}, refresh_token : {""},
          error_description : {"", "invalid_grant"}]

NextAuth ==
    \/ \E secret \in {"", "S"} :
          handleSaveConfig([config EXCEPT !.clientId = "X", !.clientSecret = secret])
    \/ \E token \in PollTokens : updateAccessToken(token)
    \/ \E token \in {"", "r1"} : updateRefreshToken(token)
    \/ \E loaded \in BOOLEAN : handleAuthorize(loaded)
    \/ handleRefreshAuth
    \/ \E i \in 1..Len(authRequests), resp \in AuthResponses : AuthReturns(i, resp)

SpecAuth == Init /\ [][NextAuth]_vars

\* localStorage.getItem(key) as a string, "" when the key is absent
Persisted(key) == IF key \in DOMAIN localStorage THEN localStorage[key] ELSE ""

\* C29: the persisted access token equals the one in memory and has no entry
\* when that one is empty, after every token update; a log out leaves the
\* refresh token, in memory and persisted, as it was.
C29_AccessTokenPersisted ==
    /\ [](IF accessToken = "" THEN ACCESS_TOKEN_KEY \notin DOMAIN localStorage
          ELSE Persisted(ACCESS_TOKEN_KEY) = accessToken)
    /\ [][(lastOp'[1] = "updateAccessToken" /\ lastOp'[2] = 0) =>
            /\ refreshToken' = refreshToken
            /\ Persisted(REFRESH_TOKEN_KEY)' = Persisted(REFRESH_TOKEN_KEY)
            /\ (REFRESH_TOKEN_KEY \in DOMAIN localStorage')
                  = (REFRESH_TOKEN_KEY \in DOMAIN localStorage)]_vars

\* a log out has just cleared an access token while the refresh token of a
\* code exchange is held in memory and persisted
C29_Witness ==
    /\ LastOpIs("updateAccessToken")
    /\ lastOp[2] = 0
    /\ lastOp[3] = 1
    /\ accessToken = ""
    /\ ACCESS_TOKEN_KEY \notin DOMAIN localStorage
    /\ refreshToken = "r2"
    /\ Persisted(REFRESH_TOKEN_KEY) = "r2"


\* no request of any kind is issued by the step
NoRequestIssued ==
    UNCHANGED <<authRequests, connectRequests, sendRequests, pollFetches>>

\* C31: an authorize with an empty client id, or with the identity library
\* not loaded, issues no popup and no request, sets a connection error
\* (one message for each of the two cases) and leaves the access and the
\* refresh token, in memory and persisted, as they were.
C31_AuthorizeAbortsEarly ==
    [][(lastOp'[1] = "handleAuthorize" /\ (config.clientId = "" \/ lastOp'[2] = 0)) =>
         /\ NoRequestIssued
         /\ connectionError' # Null
         /\ connectionError' = (IF config.clientId = "" THEN "client id required"
                                ELSE "Google Identity Services not loaded yet")
         /\ "client id required" # "Google Identity Services not loaded yet"
         /\ UNCHANGED <<accessToken, refreshToken, localStorage>>]_vars

\* an authorize with a client id has just been stopped because the library
\* is not loaded, both tokens being held
C31_Witness ==
    /\ LastOpIs("handleAuthorize")
    /\ lastOp[2] = 0
    /\ config.clientId # ""
    /\ connectionError = "Google Identity Services not loaded yet"
    /\ accessToken # ""
    /\ refreshToken # ""
    /\ authRequests = <<>>

\* an authorize without a client id has just been stopped, the library
\* being loaded and both tokens being held
C31_WitnessNoClientId ==
    /\ LastOpIs("handleAuthorize")
    /\ lastOp[2] = 1
    /\ config.clientId = ""
    /\ connectionError = "client id required"
    /\ accessToken # ""
    /\ refreshToken # ""
    /\ authRequests = <<>>

\* C32: an authorize that goes ahead uses the code flow exactly when a client
\* secret is configured and the token flow otherwise; the refresh token, in
\* memory and persisted, changes only by a manual entry or by a successful
\* code exchange that returns one, and then to the returned one: never by
\* the token flow, a refresh, a cancelled popup or a failed exchange.
C32_RefreshTokenOnlyFromCodeExchange ==
    /\ [][(lastOp'[1] = "handleAuthorize" /\ config.clientId # "" /\ lastOp'[2] = 1) =>
            /\ Len(authRequests') = Len(authRequests) + 1
            /\ (authRequests'[Len(authRequests')] = "code") = (config.clientSecret # "")
            /\ (authRequests'[Len(authRequests')] = "token") = (config.clientSecret = "")]_vars
    /\ [][(\/ refreshToken' # refreshToken
           \/ Persisted(REFRESH_TOKEN_KEY)' # Persisted(REFRESH_TOKEN_KEY)) =>
            \/ lastOp'[1] = "updateRefreshToken"
            \/ /\ lastOp'[1] = "AuthReturns"
               /\ lastOp'[2] = 1
               /\ lastOp'[3] = "code"
               /\ lastOp'[4].refresh_token # ""
               /\ refreshToken' = lastOp'[4].refresh_token
               /\ Persisted(REFRESH_TOKEN_KEY)' = lastOp'[4].refresh_token]_vars

\* the token flow has just succeeded with a response that carries a refresh
\* token, and the stored refresh token is still the one entered by hand
C32_Witness ==
    /\ LastOpIs("AuthReturns")
    /\ lastOp[2] = 1
    /\ lastOp[3] = "token"
    /\ lastOp[4].refresh_token = "r2"
    /\ refreshToken = "r1"
    /\ Persisted(REFRESH_TOKEN_KEY) = "r1"

\* a code exchange has just replaced the stored refresh token
C32_WitnessCodeExchange ==
    /\ LastOpIs("AuthReturns")
    /\ lastOp[2] = 1
    /\ lastOp[3] = "code"
    /\ refreshToken = "r2"
    /\ Persisted(REFRESH_TOKEN_KEY) = "r2"

\* a refresh of the access token has just completed with the given outcome
RefreshReturns(ok) ==
    /\ lastOp'[1] = "AuthReturns"
    /\ lastOp'[3] = "refresh"
    /\ lastOp'[2] = (IF ok THEN 1 ELSE 0)

\* C33: a refresh with the client id, the client secret or the refresh token
\* missing sets an error and issues no request; when the provider answers
\* with a token the access token is replaced by it, in memory and persisted,
\* and the refresh token is unchanged; when the provider fails both tokens
\* are unchanged and the error shown carries the provider's error
\* description.
C33_RefreshOutcomes ==
    /\ [][(/\ lastOp'[1] = "handleRefreshAuth"
           /\ (refreshToken = "" \/ config.clientId = "" \/ config.clientSecret = "")) =>
            /\ connectionError' = "refresh needs client id, secret and refresh token"
            /\ NoRequestIssued
            /\ UNCHANGED <<accessToken, refreshToken, localStorage>>]_vars
    /\ [][RefreshReturns(TRUE) =>
            /\ accessToken' = lastOp'[4].access_token
            /\ Persisted(ACCESS_TOKEN_KEY)' = lastOp'[4].access_token
            /\ refreshToken' = refreshToken
            /\ Persisted(REFRESH_TOKEN_KEY)' = Persisted(REFRESH_TOKEN_KEY)]_vars
    /\ [][RefreshReturns(FALSE) =>
            /\ UNCHANGED <<accessToken, refreshToken, localStorage>>
            /\ connectionError' # Null
            /\ lastOp'[4].error_description # "" =>
                  connectionError' = "token refresh error: "
                                        \o lastOp'[4].error_description]_vars

\* a refresh has just been refused by the provider with a description, both
\* tokens being held
C33_Witness ==
    /\ LastOpIs("AuthReturns")
    /\ lastOp[2] = 0
    /\ lastOp[3] = "refresh"
    /\ lastOp[4].error_description = "invalid_grant"
    /\ connectionError = "token refresh error: invalid_grant"
    /\ accessToken = "tok1"
    /\ refreshToken = "r1"

\* a refresh has just replaced the access token and kept the refresh token
C33_WitnessSuccess ==
    /\ LastOpIs("AuthReturns")
    /\ lastOp[2] = 1
    /\ lastOp[3] = "refresh"
    /\ accessToken = "tok2"
    /\ lastOp[4].refresh_token = "r2"
    /\ refreshToken = "r1"

\* a refresh without a refresh token has just been stopped
C33_WitnessGuard ==
    /\ LastOpIs("handleRefreshAuth")
    /\ refreshToken = ""
    /\ config.clientId # ""
    /\ config.clientSecret # ""
    /\ connectionError = "refresh needs client id, secret and refresh token"
    /\ authRequests = <<>>

----------------------------------------------------------------------------
(* Two saved slots, sent and edited side by side.                          *)

SlotIds == {1, 2}

NextSlots ==
    \/ updateAccessToken("tok1")
    \/ handleSaveConfig([config EXCEPT !.streamUrl = UrlShortA])
    \/ ~connectDisabled /\ handleConnect
    \/ \E i \in 1..Len(connectRequests) : ConnectReturns(i, "ok")
    \/ \E i \in 1..Len(messages) :
          /\ messages[i].id \in SlotIds
          /\ ~sendDisabled(messages[i])
          /\ handleSendMessage(messages[i].id, messages[i].text)
    \/ \E i \in 1..Len(sendRequests), err \in SendErrors : SendReturns(i, err)
    \/ \E i \in 1..Len(resetTimers) : ResetTimerFires(i)
    \/ \E id \in SlotIds : handleUpdateMessageText(id, "edited")

SpecSlots == Init /\ [][NextSlots]_vars

\* the entries of messageStates other than id's are the same in both states
OtherStatesUnchanged(id) ==
    /\ DOMAIN messageStates' \ {id} = DOMAIN messageStates \ {id}
    /\ \A k \in DOMAIN messageStates \ {id} : messageStates'[k] = messageStates[k]

\* C26: an update of the text of message id replaces the text of that
\* message and nothing else in the list, leaves the id's status IDLE
\* whatever it was, and leaves the status of every other id as it was.
C26_EditReplacesTextAndResetsStatus ==
    [][(lastOp'[1] = "handleUpdateMessageText") =>
          LET id == lastOp'[2]
              text == lastOp'[3]
          IN  /\ Len(messages') = Len(messages)
              /\ \A i \in 1..Len(messages) :
                    messages'[i] = IF messages[i].id = id
                                   THEN [id |-> id, text |-> text,
                                         isPinned |-> messages[i].isPinned,
                                         isMain |-> messages[i].isMain]
                                   ELSE messages[i]
              /\ RawStatus(messageStates', id) = IDLE
              /\ OtherStatesUnchanged(id)
              /\ quickMessageStatus' = quickMessageStatus]_vars

\* the text of a slot showing ERROR has just been edited while the other
\* slot is being sent
C26_Witness ==
    /\ LastOpIs("handleUpdateMessageText")
    /\ lastOp[4] = ERROR
    /\ StatusOf(lastOp[2]) = IDLE
    /\ \E other \in SlotIds \ {lastOp[2]} : StatusOf(other) = SENDING
    /\ \E i \in 1..Len(messages) : messages[i].id = lastOp[2] /\ messages[i].text = "edited"

\* the step is the failure of a send
SendFails == lastOp'[1] = "SendReturns" /\ lastOp'[3] # Null

\* C27: a failed send changes the status of its own slot only: the status of
\* every other slot, the saved list, liveDetails, the access token and the
\* connection error stay as they were.
C27_FailureTouchesOwnSlotOnly ==
    [][SendFails =>
          /\ IF lastOp'[2] = QuickSlot
             THEN /\ quickMessageStatus' = ERROR
                  /\ messageStates' = messageStates
             ELSE /\ RawStatus(messageStates', lastOp'[2]) = ERROR
                  /\ OtherStatesUnchanged(lastOp'[2])
                  /\ quickMessageStatus' = quickMessageStatus
          /\ UNCHANGED <<messages, liveDetails, accessToken, connectionError>>]_vars

\* a send has just failed on one slot while the other slot shows the SUCCESS
\* of its own send
C27_Witness ==
    /\ LastOpIs("SendReturns")
    /\ lastOp[3] # Null
    /\ lastOp[2] \in SlotIds
    /\ StatusOf(lastOp[2]) = ERROR
    /\ \E other \in SlotIds \ {lastOp[2]} : StatusOf(other) = SUCCESS
    /\ LiveChatIdOf(liveDetails) # NoId

----------------------------------------------------------------------------
(* Connecting and sending under fair scheduling: the oldest request in     *)
(* flight eventually returns and the oldest pending timer eventually       *)
(* fires; the operator's actions are under no obligation.                  *)

ConnectStep == \E o \in {"ok", "no active chat"} : ConnectReturns(1, o)

SendStep == \E err \in SendErrors : SendReturns(1, err)

ResetStep == ResetTimerFires(1)

NextLive ==
    \/ \E token \in PollTokens : updateAccessToken(token)
    \/ handleSaveConfig([config EXCEPT !.streamUrl = UrlShortA])
    \/ ~connectDisabled /\ handleConnect
    \/ ConnectStep
    \/ \E i \in 1..Len(messages) :
          /\ messages[i].id \in SendIds
          /\ ~sendDisabled(messages[i])
          /\ handleSendMessage(messages[i].id, messages[i].text)
    \/ ~quickInputDisabled /\ setQuickMessage("hi")
    \/ ~quickInputDisabled /\ handleSendQuickMessage
    \/ SendStep
    \/ \E i \in 2..Len(sendRequests), err \in SendErrors : SendReturns(i, err)
    \/ ResetStep
    \/ \E i \in 2..Len(resetTimers) : ResetTimerFires(i)

SpecLive ==
    /\ Init /\ [][NextLive]_vars
    /\ WF_vars(ConnectStep) /\ WF_vars(SendStep) /\ WF_vars(ResetStep)

\* every connect attempt ends with isLoadingChat false
C22_ConnectEnds == isLoadingChat ~> ~isLoadingChat

\* every saved slot that enters SENDING leaves it
C22_SavedSlotLeavesSending ==
    \A id \in SendIds :
        (RawStatus(messageStates, id) = SENDING) ~> (RawStatus(messageStates, id) # SENDING)

\* C22: when every request issued eventually returns, every connect attempt
\* ends with isLoadingChat false and every slot, saved or quick, that enters
\* SENDING eventually leaves SENDING.
C22_NothingStaysStuck ==
    /\ C22_ConnectEnds
    /\ C22_SavedSlotLeavesSending
    /\ (quickMessageStatus = SENDING) ~> (quickMessageStatus # SENDING)

----------------------------------------------------------------------------
(* Reordering through the slots the list shows (App.tsx:565-580).          *)

NextFilter ==
    \/ \E value \in {"all", "pinned"} : setFilter(value)
    \/ \E value \in {"", "a", "you"} : setSearchQuery(value)
    \/ \E id \in {2, 3, 5} : handleTogglePin(id)
    \/ \E index \in 1..Len(filteredMessages), direction \in {"up", "down"} :
          ~moveDisabled(index, direction) /\ handleMoveMessage(index, direction)

SpecFilter == Init /\ [][NextFilter]_vars

Swap(list, i, j) == [list EXCEPT ![i] = list[j], ![j] = list[i]]

\* the stored position of the message shown at position index
StoredIndex(index) == FindIndex(messages, filteredMessages[index].id)

\* C19: a move requested on a shown message swaps that message with its
\* neighbour in the stored list in the requested direction, and changes
\* nothing at a boundary, whatever filter or search text is active.
C19_MoveSwapsShownMessage ==
    [][(lastOp'[1] = "handleMoveMessage" /\ lastOp'[2] <= Len(filteredMessages)) =>
          LET from == StoredIndex(lastOp'[2])
              to == IF lastOp'[3] = "up" THEN from - 1 ELSE from + 1
          IN  messages' = IF to \in 1..Len(messages) THEN Swap(messages, from, to)
                          ELSE messages]_vars

\* a move leaves a permutation of the stored list
C19_MoveKeepsPermutation ==
    [][(lastOp'[1] = "handleMoveMessage") =>
          /\ Len(messages') = Len(messages)
          /\ \E i, j \in 1..Len(messages) : messages' = Swap(messages, i, j)]_vars

----------------------------------------------------------------------------
(* The store when messages are added: ids come from the millisecond clock. *)

AddedIds == {id \in IdsIn(messages) : id > Len(DEFAULT_MESSAGES)}

NextAdd ==
    \/ Tick
    \/ handleAddMessage
    \/ \E id \in {5} \cup AddedIds : handleDeleteMessage(id)
    \/ handleUndoDelete
    \/ handleDeleteAll(TRUE)
    \/ \E id \in {1} \cup AddedIds : handleSetMain(id)

SpecAdd == Init /\ [][NextAdd]_vars

\* C8: at most one saved message is main in every reachable state.
C8_AtMostOneMain == MainCount <= 1

\* the ids of the saved messages are pairwise distinct
IdsDistinct(list) == Cardinality(IdsIn(list)) = Len(list)

\* C23: an add appends one entry at the tail, with empty text, not pinned
\* and not main, whose id differs from the id of every message in the list
\* and of the message in the undo slot; the ids of the saved messages are
\* pairwise distinct in every state.
C23_AddAppendsFreshId ==
    /\ [][(lastOp'[1] = "handleAddMessage") =>
            LET added == messages'[Len(messages')]
            IN  /\ messages' = Append(messages, added)
                /\ added.text = "" /\ ~added.isPinned /\ ~added.isMain
                /\ added.id \notin IdsIn(messages)
                /\ lastDeleted # <<>> => added.id # lastDeleted[1].message.id]_vars
    /\ []IdsDistinct(messages)

\* an add appends one entry at the tail with empty text and no flag
C23_AddAppendsEmptyEntry ==
    [][(lastOp'[1] = "handleAddMessage") =>
          LET added == messages'[Len(messages')]
          IN  /\ messages' = Append(messages, added)
              /\ added.text = "" /\ ~added.isPinned /\ ~added.isMain]_vars

----------------------------------------------------------------------------
(* Every store operation on a list that grows by adds; deletes are         *)
(* pressed on slots.                                                       *)

\* the slots whose delete button the operator presses
DeleteSlots == {4, 5, 6, 7}

NextDelete ==
    \/ Tick
    \/ handleAddMessage
    \/ \E p \in DeleteSlots : p <= Len(messages) /\ handleDeleteMessage(messages[p].id)
    \/ Len(messages) > Len(DEFAULT_MESSAGES) /\ handleMoveMessage(Len(DEFAULT_MESSAGES) + 1, "up")
    \/ handleUndoDelete
    \/ handleDismissUndo
    \/ \E i \in 1..Len(undoTimers) : UndoTimerFires(i)
    \/ handleTogglePin(4)
    \/ handleSetMain(5)
    \/ handleUpdateMessageText(5, "edited")
    \/ \E confirmed \in BOOLEAN : handleDeleteAll(confirmed)

SpecDelete == Init /\ [][NextDelete]_vars

\* the step empties the undo offer: expiry, dismiss or restore
UndoOfferEnds == lastOp'[1] \in {"UndoTimerFires", "handleDismissUndo", "handleUndoDelete"}

\* C24: a delete pressed on the slot of a message that is neither pinned nor
\* main removes that slot's message and no other, keeps the order of the
\* rest, and puts {that message, its position before the removal} in the undo
\* slot, whatever the slot held; expiry, dismiss and restore empty the slot.
C24_DeleteRemovesThatMessage ==
    /\ [][(lastOp'[1] = "handleDeleteMessage") =>
            \A p \in 1..Len(messages) :
                (/\ messages[p].id = lastOp'[2]
                 /\ ~messages[p].isPinned
                 /\ ~messages[p].isMain) =>
                   /\ messages' = RemoveAt(messages, p)
                   /\ lastDeleted' = << [message |-> messages[p], index |-> p] >>]_vars
    /\ [][UndoOfferEnds => lastDeleted' = <<>>]_vars

\* the list the application reads from storage at start (lines 40, 93,
\* 105-107): the stored one, or the default list when nothing is stored
PersistedMessages ==
    IF MESSAGES_KEY \in DOMAIN localStorage THEN localStorage[MESSAGES_KEY]
    ELSE DEFAULT_MESSAGES

\* the step is a saved-message store operation
StoreOperation ==
    \/ lastOp'[1] \in {"handleAddMessage", "handleUpdateMessageText", "handleDeleteMessage",
                        "handleUndoDelete", "handleDeleteAll", "handleMoveMessage"}
    \/ messages' # messages

\* C30: after every store operation the persisted list equals the list in
\* memory, entry by entry; nothing but the configuration, the list and the
\* tokens is ever persisted: no send status and no undo snapshot.
C30_StoreIsPersisted ==
    /\ [](PersistedMessages = messages)
    /\ [](DOMAIN localStorage \subseteq
             {CONFIG_KEY, MESSAGES_KEY, ACCESS_TOKEN_KEY, REFRESH_TOKEN_KEY})
    /\ [][StoreOperation =>
            /\ PersistedMessages' = messages'
            /\ messages' # messages =>
                  /\ MESSAGES_KEY \in DOMAIN localStorage'
                  /\ localStorage'[MESSAGES_KEY] = messages']_vars

\* an add has just been persisted while an undo snapshot is held and a
\* message is main
C30_Witness ==
    /\ LastOpIs("handleAddMessage")
    /\ MESSAGES_KEY \in DOMAIN localStorage
    /\ localStorage[MESSAGES_KEY] = messages
    /\ messages[Len(messages)].id > Len(DEFAULT_MESSAGES)
    /\ lastDeleted # <<>>
    /\ MainCount = 1
    /\ DOMAIN localStorage = {MESSAGES_KEY}

\* the poller is active: the chat view is selected and a live-chat-id exists
PollerActive == activeTab = "chat" /\ LiveChatIdOf(liveDetails) # NoId


\* C39: the expiry timer of an undo snapshot clears only the snapshot it was
\* started for.  While the undo slot holds a snapshot the only pending timer
\* is the one started with it, and a timer that fires on a filled slot was
\* started for the snapshot the slot holds.
C39_TimerClearsOwnSnapshot ==
    /\ [](lastDeleted # <<>> => undoTimers = <<lastDeleted[1]>>)
    /\ [][(lastOp'[1] = "UndoTimerFires" /\ lastDeleted # <<>>) =>
             lastOp'[3] = lastDeleted[1]]_vars

\* the timer of a second deletion has just fired, after the first deletion's
\* timer was replaced: both messages are gone and nothing is pending
C39_Witness ==
    /\ LastOpIs("UndoTimerFires")
    /\ lastOp[3].message.id = 5
    /\ IdsIn(messages) = {1, 2, 3}
    /\ lastDeleted = <<>>
    /\ undoTimers = <<>>
    /\ ~undoTimeoutRef

\* a delete-all has emptied the undo slot and left the timer pending, and a
\* later deletion has replaced that timer by its own
C39_WitnessAfterDeleteAll ==
    /\ LastOpIs("handleDeleteMessage")
    /\ lastDeleted # <<>>
    /\ lastDeleted[1].message.id \notin {4, 5}
    /\ IdsIn(messages) = {1, 2, 3}
    /\ undoTimers = <<lastDeleted[1]>>

----------------------------------------------------------------------------
(* The poll interval under the intervals a provider can suggest.           *)

SuggestedIntervals == {<<>>, <<0>>, <<500>>, <<5000>>}

IntervalResponses ==
    {[ok |-> FALSE]} \cup
    [ok : {TRUE}, nextPageToken : {"p1"}, pollingIntervalMillis : SuggestedIntervals,
     items : {<<>>}]

NextInterval ==
    \/ \E tab \in {"saved", "chat"} : setActiveTab(tab)
    \/ updateAccessToken("tok1")
    \/ handleSaveConfig([config EXCEPT !.streamUrl = UrlShortA])
    \/ ~connectDisabled /\ handleConnect
    \/ \E i \in 1..Len(connectRequests) : ConnectReturns(i, "ok")
    \/ \E which \in 0..Len(pollTimers) : PollTimerFires(which)
    \/ \E i \in 1..Len(pollFetches), resp \in IntervalResponses : FetchReturns(i, resp)

SpecInterval == Init /\ [][NextInterval]_vars

Max(a, b) == IF a >= b THEN a ELSE b

\* C15: after a successful response the stored interval is
\* max(suggested, 1000), or 3000 when none was suggested; the interval is at
\* least 1000 in every state.
C15_IntervalClamped ==
    /\ [](chatPollingInterval >= PollFloor)
    /\ [][IsMerge =>
            chatPollingInterval' = IF lastOp'[4] = <<>> THEN PollDefault
                                   ELSE Max(lastOp'[4][1], PollFloor)]_vars

\* the interval is at least 1000 ms in every state
C15_IntervalAtLeastFloor == chatPollingInterval >= PollFloor

----------------------------------------------------------------------------
(* The polling loop under fair scheduling: a pending timer eventually      *)
(* fires and a request in flight eventually returns.                       *)

RetryResponses ==
    {[ok |-> FALSE]} \cup
    [ok : {TRUE}, nextPageToken : PageTokens, pollingIntervalMillis : {<<>>}, items : {<<1>>}]

TimerStep == \E which \in 0..Len(pollTimers) : PollTimerFires(which)

FetchStep == \E i \in 1..Len(pollFetches), resp \in RetryResponses : FetchReturns(i, resp)

NextRetry ==
    \/ \E tab \in {"saved", "chat"} : setActiveTab(tab)
    \/ \E token \in PollTokens : updateAccessToken(token)
    \/ handleSaveConfig([config EXCEPT !.streamUrl = UrlShortA])
    \/ ~connectDisabled /\ handleConnect
    \/ \E i \in 1..Len(connectRequests) : ConnectReturns(i, "ok")
    \/ TimerStep
    \/ FetchStep

SpecRetry == Init /\ [][NextRetry]_vars /\ WF_vars(TimerStep) /\ WF_vars(FetchStep)

\* a list_messages request is issued in this step
FetchIssued == Len(pollFetches') > Len(pollFetches)

\* the step is the failure of request i
FailureOf(i) ==
    /\ lastOp'[1] = "FetchReturns"
    /\ ~lastOp'[3]
    /\ pollFetches' = RemoveAt(pollFetches, i)

C1_NoFetchWhileCancelled ==
    [][(~PollerActive /\ ~PollerActive') => Len(pollFetches') <= Len(pollFetches)]_vars

\* C2: at most one list_messages request is in flight in every reachable state.
C2_AtMostOneFetchInFlight == Len(pollFetches) <= 1

\* the request a step issues
IssuedRequest == pollFetches'[Len(pollFetches')]

\* C18: every list_messages request issued for the current chat carries the
\* current continuation token, the one the most recent successful response
\* returned (none since the last connect); a replaced token is not sent again.
C18_RequestCarriesCurrentToken ==
    [][(Len(pollFetches') > Len(pollFetches) /\ IssuedRequest.liveDetails = liveDetails') =>
          IssuedRequest.chatNextPageToken = chatNextPageToken']_vars


----------------------------------------------------------------------------
(* Responses and timers that outlive the connection they were made for.    *)

\* the step is the successful return of list_messages request i
SuccessOf(i) ==
    /\ lastOp'[1] = "FetchReturns"
    /\ lastOp'[3]
    /\ pollFetches' = RemoveAt(pollFetches, i)

\* C34: a list_messages response that belongs to a chat which is no longer
\* the current one (the stream URL changed, or a new connect completed,
\* while the request was in flight) adds nothing to the log and does not set
\* the continuation token.
C34_StaleResponseIgnored ==
    [][\A i \in 1..Len(pollFetches) :
         (/\ SuccessOf(i)
          /\ LiveChatIdOf(pollFetches[i].liveDetails) # LiveChatIdOf(liveDetails)) =>
            /\ chatMessages' = chatMessages
            /\ chatNextPageToken' = chatNextPageToken]_vars

\* C35: whenever liveDetails is non-null its videoId is the id extracted from
\* the saved stream URL.
C35_DetailsMatchSavedUrl ==
    liveDetails # NoDetails => liveDetails.videoId = extractVideoId(config.streamUrl)

\* C37: at most one poll timer is pending, and it is the one that
\* pollingTimeoutRef names: no scheduled poll is pending unreferenced.
C37_OnePollTimer ==
    /\ pollTimers = <<>>
    /\ Len(pollingTimeoutRef) <= 1


----------------------------------------------------------------------------
(* The chat log under pages that repeat an item.                           *)

\* the pages of list_messages: one item, one item twice, two items
RepeatBatches == {<<1>>, <<2, 2>>, <<1, 2>>}

NextRepeat ==
    \/ setActiveTab("chat")
    \/ updateAccessToken("tok1")
    \/ handleSaveConfig([config EXCEPT !.streamUrl = UrlShortA])
    \/ ~connectDisabled /\ handleConnect
    \/ \E i \in 1..Len(connectRequests) : ConnectReturns(i, "ok")
    \/ \E which \in 0..Len(pollTimers) : PollTimerFires(which)
    \/ \E i \in 1..Len(pollFetches), items \in RepeatBatches :
          FetchReturns(i, [ok |-> TRUE, nextPageToken |-> "p1",
                           pollingIntervalMillis |-> <<>>, items |-> items])

SpecRepeat == Init /\ [][NextRepeat]_vars

\* C36: the remote ids of the entries of the chat log are pairwise distinct,
\* also after a page that holds the same id more than once.
C36_LogIdsDistinct ==
    \A p, q \in 1..Len(chatMessages) : p # q => chatMessages[p] # chatMessages[q]


----------------------------------------------------------------------------
(* The three send actions: a saved slot, the main message, the quick bar.  *)

\* the slots the operator marks as main or sends: one with a text, one
\* with the empty text of DEFAULT_MESSAGES
MainSlots == {3, 4}

\* the main send is offered only while connected and authorized; App passes
\* the panel hasMainMessage and isConnected, never the main message's text
\* (lines 499, 504-505)
NextMain ==
    \/ updateAccessToken("tok1")
    \/ handleSaveConfig([config EXCEPT !.streamUrl = UrlShortA])
    \/ ~connectDisabled /\ handleConnect
    \/ \E i \in 1..Len(connectRequests) : ConnectReturns(i, "ok")
    \/ \E id \in MainSlots : handleSetMain(id)
    \/ \E i \in 1..Len(messages) :
          /\ messages[i].id \in MainSlots
          /\ ~sendDisabled(messages[i])
          /\ handleSendMessage(messages[i].id, messages[i].text)
    \/ ~SendGuardFails /\ MainCount > 0 /\ handleSendMainMessage
    \/ \E text \in QuickTexts : ~quickInputDisabled /\ setQuickMessage(text)
    \/ ~quickInputDisabled /\ handleSendQuickMessage
    \/ \E i \in 1..Len(sendRequests), err \in SendErrors : SendReturns(i, err)
    \/ \E i \in 1..Len(resetTimers) : ResetTimerFires(i)

SpecMain == Init /\ [][NextMain]_vars

\* C38: every send_message request in flight carries a text that is neither
\* empty nor whitespace-only, whichever send action issued it.
C38_NoBlankTextSent ==
    \A i \in 1..Len(sendRequests) : ~Blank(sendRequests[i].text)

====
